---- MODULE Spec2Model ----
(***************************************************************************)
(* Control-plane driver of the Hololink sensor bridge                       *)
(* (src/src/hololink/hololink.cpp): the register access protocol over UDP,  *)
(* its sequence counter, retry loop and execute mutex, the device reset    *)
(* resynchronisation, and the named bus/device locks.                       *)
(***************************************************************************)
EXTENDS Integers, Sequences, FiniteSets, TLC

\* ------------------------------------------------------------------ bounds
MaxAttempts == 3      \* request datagrams one behaviour puts on the wire
MaxRetries == 1       \* retries a Timeout policy grants one call
MaxResyncs == 1       \* executions of "sequence_ = 1" in one behaviour
MaxRmw == 2           \* and_uint32/or_uint32 calls in one behaviour
MaxSendFailures == 2  \* attempts made while the session is stopped
MaxListeners == 2     \* on_reset registrations in one behaviour
MaxSequence == 4      \* reset() is entered while sequence_ is below it
MaxStarts == 2         \* start() calls made on one BaseReceiverOp
MaxFrameworkCalls == 3 \* from_enumeration_metadata and reset_framework calls
MaxGetGpio == 3       \* get_gpio calls in one behaviour

\* --------------------------------------------------------------- constants
SeqMod == 65536       \* uint16_t sequence_
RESET_REG == 4        \* write_uint32(0x4, 0x8, nullptr, false) in reset()
RESET_VALUE == 8
FPGA_VERSION == 128   \* register read by get_fpga_version (0x80)
DATA_REG == 8         \* a read/write register (0x8, written by reset())
FPGA_DATE == 132      \* register read by get_fpga_date (0x84)
SPI_ADDRESS == 48     \* address of an SPI controller's register block
SPI_START == 1        \* 0b0000'0000'0000'0001
SPI_BUSY == 256       \* 0b0000'0001'0000'0000

Threads == {"t1", "t2"}
NoThread == "none"

\* addresses callers pass: a read/write register, a word-aligned address the
\* device does not map (0xC), an address that is not a multiple of four
Addresses == {DATA_REG, 12, 6}
DeviceAddresses ==
  {RESET_REG, DATA_REG, FPGA_VERSION, FPGA_DATE, SPI_ADDRESS,
   SPI_ADDRESS + 16}
Values == {1, 2}

\* Host threads that use the named locks: two threads of process p1 and one
\* thread of process p2, all talking to the same device.
Workers == {"p1.t1", "p1.t2", "p2.t1"}
Processes == {"p1", "p2"}
NoProcess == "none"
ProcessOf(w) == IF w \in {"p1.t1", "p1.t2"} THEN "p1" ELSE "p2"

I2C_LOCK == "hololink-i2c-lock"
SPI_LOCK == "hololink-spi-lock"
DEVICE_LOCK == "hololink-lock"
LockNames == {I2C_LOCK, SPI_LOCK, DEVICE_LOCK}

\* The register accesses of a bus transaction's locked section, in order.
BusPhases == <<"busy_check", "setup", "start", "poll", "read_data">>

RESPONSE_SUCCESS == "RESPONSE_SUCCESS"
RESPONSE_INVALID_ADDR == "RESPONSE_INVALID_ADDR"

RD_DWORD == "RD_DWORD"
WR_DWORD == "WR_DWORD"

VARIABLES
  sequence_,        \* Hololink::sequence_
  execute_mutex_,   \* Hololink::execute_mutex_: the thread that holds it
  requests,         \* request datagrams sent (the network may deliver each
                    \* late, more than once, in any order, or never)
  replies,          \* reply datagrams on their way to the control socket
  regs,             \* the device's register file
  op,               \* per thread: the public operation it is running
  rc,               \* per thread: the register call in progress
  timeout,          \* per thread: the Timeout object of the call
  attempts,         \* number of requests sent so far
  resyncs,          \* number of times reset() set sequence_ = 1
  rt,               \* round-trip bookkeeping: the last write that returned
                    \* true, and whether a read started after it
  worker,           \* per host thread: the locked operation it is running
  lock_owner,       \* per lock file: the process that holds the lockf lock
  rmw_log,          \* the and_uint32/or_uint32 calls made, in call order
  lockfile,         \* per process: the function-static NamedLock objects,
                    \* and the lock file the last locked operation used
  i2c,              \* the i2c_transaction call in progress and the register
                    \* accesses it has issued
  spi,              \* the spi_transaction call in progress
  gpio,             \* the GPIO call in progress, the register accesses it
                    \* has issued, and the GPIO direction/output registers
  control_socket_,  \* Hololink::control_socket_: a socket or no descriptor
  reset_controllers_, \* Hololink::reset_controllers_: the reset listeners
  reset_run,        \* the reset() call in progress: its position, the
                    \* steps it has taken and the listeners it has invoked
  hololink_by_serial_number, \* the registry of sessions of the process
  framework_calls,  \* the from_enumeration_metadata and reset_framework
                    \* calls made, in call order, with what each returned
  get_gpio_calls,   \* the get_gpio calls made, with what each returned
  receiver          \* the BaseReceiverOp: its data socket, its receiver,
                    \* the data channel and the device it starts, and
                    \* the calls start() and stop() have made

core == <<sequence_, execute_mutex_, requests, replies, regs, op, rc,
          timeout, attempts, resyncs>>
locks == <<worker, lock_owner, rmw_log>>

\* the session's lifecycle state
framework == <<hololink_by_serial_number, framework_calls>>

life == <<reset_controllers_, reset_run, framework, get_gpio_calls>>

ext == <<lockfile, i2c, spi, gpio, control_socket_, life, receiver>>

vars == <<core, rt, locks, ext>>

NoReply == [att |-> 0]
NoCall == [st |-> "none"]
NoWrite == [valid |-> FALSE]

InitRegs == [a \in DeviceAddresses |-> 0]

\* A register call as read_uint32 / write_uint32 see it on entry.
NewCall(cmd, address, value, retry) ==
  [st |-> "loop", cmd |-> cmd, address |-> address, value |-> value,
   retry |-> retry, count |-> 0, sequence |-> 0, att |-> 0, seqs |-> <<>>,
   got |-> NoReply, outcome |-> "pending", code |-> "none", result |-> 0,
   skipped |-> FALSE, sequence_check |-> TRUE, reported |-> <<>>]

\* Timeout policy: a deadline that the passing of time reaches, and a budget
\* of retries; retry() re-arms the deadline while budget is left.
NewTimeout(n) == [retries |-> n]

InitCore(start) ==
  /\ sequence_ = start
  /\ execute_mutex_ = NoThread
  /\ requests = {}
  /\ replies = {}
  /\ regs = InitRegs
  /\ op = [t \in Threads |-> "idle"]
  /\ rc = [t \in Threads |-> NoCall]
  /\ timeout = [t \in Threads |-> NewTimeout(0)]
  /\ attempts = 0
  /\ resyncs = 0

InitRt == rt = [w |-> NoWrite, expect |-> FALSE, dirty |-> FALSE]

Idle == [op |-> "idle"]

InitLocks ==
  /\ worker = [w \in Workers |-> Idle]
  /\ lock_owner = [n \in LockNames |-> NoProcess]
  /\ rmw_log = <<>>

Devices == {"serial-A", "serial-B"}
NotConstructed == "none"

InitLockfile ==
  lockfile = [static |-> [p \in Processes |-> [n \in LockNames |-> NotConstructed]],
              use |-> [valid |-> FALSE]]

I2cIdle == [pc |-> "idle"]

InitI2c == i2c = I2cIdle

SpiIdle == [pc |-> "idle"]

InitSpi == spi = SpiIdle

GpioBanks == {0, 1}

InitGpio ==
  gpio = [pc |-> "idle", direction |-> [b \in GpioBanks |-> {}],
          output |-> [b \in GpioBanks |-> {}]]

\* The session has been started: start() created the control socket.
InitSocket == control_socket_ = "socket"

ResetIdle == [pc |-> "idle", trace |-> <<>>, notified |-> <<>>]

\* No listener is registered and no reset() has run.
Serials == {"serial-A", "serial-B"}
NoHandle == [id |-> 0]

InitLife ==
  /\ reset_controllers_ = <<>>
  /\ reset_run = ResetIdle
  /\ hololink_by_serial_number = [n \in Serials |-> NoHandle]
  /\ framework_calls = <<>>
  /\ get_gpio_calls = <<>>

\* The operator has been constructed and set up; start() has not run.
ReceiverIdle ==
  [pc |-> "idle", starts |-> 0, user_frame_memory_ |-> "unset",
   deviceptr_ |-> FALSE, sockets |-> 0, data_socket_ |-> 0,
   receiving |-> FALSE, configured |-> 0, device |-> FALSE, trace |-> <<>>]

InitReceiver == receiver = ReceiverIdle

InitExt ==
  /\ InitLockfile /\ InitI2c /\ InitSpi /\ InitGpio /\ InitSocket /\ InitLife
  /\ InitReceiver

\* The session starts with the counter at the value reset() leaves behind.
Init == InitCore(1) /\ InitRt /\ InitLocks /\ InitExt

\* The session starts with the counter at its last value before it wraps.
InitWrap == InitCore(SeqMod - 1) /\ InitRt /\ InitLocks /\ InitExt

\* ------------------------------------------------------- pure operations

next_sequence_nowrap(s) == s + 1
next_sequence_stuck(s) == s

\* Hololink::next_sequence: the value the counter holds after one request.
next_sequence(s) == (s + 1) % SeqMod

Matches_any(sequence, reply) == TRUE

\* execute(): the test that ends the receive loop with success.
Matches(sequence, reply) == reply.sequence = sequence

CanLock_unguarded(t) == TRUE

\* std::lock_guard lock(execute_mutex_): a thread gets past it only while
\* no thread holds the mutex.
CanLock(t) == execute_mutex_ = NoThread

\* (address & 3) != 0 throws before the mutex is taken.
Aligned_any(address) == TRUE

Aligned(address) == address % 4 = 0

\* Timeout::retry(): grants a retry while the policy has budget left.
Retry(tmo) == tmo.retries > 0

\* The request the serializer builds: cmd, sequence, address, value.
\* att and ep are bookkeeping: the ordinal of the request and the number of
\* resynchronisations of the counter before it was sent.
REQUEST_FLAGS_ACK_REQUEST == "ACK_REQUEST"
REQUEST_FLAGS_SEQUENCE_CHECK == "SEQUENCE_CHECK"

RequestFlags_always(sequence_check) ==
  {REQUEST_FLAGS_ACK_REQUEST, REQUEST_FLAGS_SEQUENCE_CHECK}

\* flags = REQUEST_FLAGS_ACK_REQUEST;
\* if (sequence_check) flags |= REQUEST_FLAGS_SEQUENCE_CHECK;
RequestFlags(sequence_check) ==
  IF sequence_check
    THEN {REQUEST_FLAGS_ACK_REQUEST, REQUEST_FLAGS_SEQUENCE_CHECK}
    ELSE {REQUEST_FLAGS_ACK_REQUEST}

\* Serializer::append_uint16_be / append_uint32_be: most significant byte
\* first
append_uint16_be(x) == <<x \div 256, x % 256>>

append_uint32_be(x) ==
  <<x \div 16777216, (x \div 65536) % 256, (x \div 256) % 256, x % 256>>

Serialized_little_endian(c, sequence) ==
  <<c.cmd, RequestFlags(c.sequence_check), sequence % 256,
    sequence \div 256, 0, 0, c.address % 256, (c.address \div 256) % 256,
    (c.address \div 65536) % 256, c.address \div 16777216>>
    \o (IF c.cmd = WR_DWORD
          THEN <<c.value % 256, (c.value \div 256) % 256,
                 (c.value \div 65536) % 256, c.value \div 16777216>>
          ELSE <<>>)

\* The bytes of the request datagram: the command code and the flags byte
\* are kept by name, every other byte by value.
Serialized(c, sequence) ==
  <<c.cmd, RequestFlags(c.sequence_check)>> \o append_uint16_be(sequence)
    \o <<0, 0>> \o append_uint32_be(c.address)
    \o (IF c.cmd = WR_DWORD THEN append_uint32_be(c.value) ELSE <<>>)

Request_novalue(c, sequence, att) ==
  [cmd |-> c.cmd, sequence |-> sequence, address |-> c.address, value |-> 0,
   flags |-> RequestFlags(c.sequence_check), att |-> att, ep |-> resyncs,
   bytes |-> Serialized(c, sequence)]

Request(c, sequence, att) ==
  [cmd |-> c.cmd, sequence |-> sequence, address |-> c.address,
   value |-> IF c.cmd = WR_DWORD THEN c.value ELSE 0,
   flags |-> RequestFlags(c.sequence_check), att |-> att, ep |-> resyncs,
   bytes |-> Serialized(c, sequence)]

Outcome_unchecked(c, r) ==
  IF c.cmd = RD_DWORD /\ r.cmd # RD_DWORD THEN "DeserializeError" ELSE "ok"

\* What read_uint32_ / write_uint32_ make of the reply execute() matched.
Outcome(c, r) ==
  IF r.code # RESPONSE_SUCCESS THEN "ProtocolError"
  ELSE IF c.cmd = RD_DWORD /\ r.cmd # RD_DWORD THEN "DeserializeError"
  ELSE "ok"

Result(c, r) ==
  IF Outcome(c, r) # "ok" THEN 0
  ELSE IF c.cmd = RD_DWORD THEN r.value ELSE 1

\* ------------------------------------------------- register call actions

\* What read_uint32 / write_uint32 hand to add_read_retries /
\* add_write_retries on the way out, as the list of the hook's arguments:
\* `return status` and `return value.value()` leave from inside the try
\* block; a break and a caught exception reach the call past the loop.
add_retries(count, outcome) ==
  IF outcome = "ok" THEN <<>> ELSE <<count - 1>>

\* read_uint32_ / write_uint32_ with a misaligned address: throws.
AttemptInvalid(t) ==
  /\ rc[t].st = "loop"
  /\ ~Aligned(rc[t].address)
  /\ rc' = [rc EXCEPT ![t].st = "finished", ![t].count = @ + 1,
                      ![t].outcome = "InvalidArgument",
                      ![t].reported =
                        add_retries(rc[t].count + 1, "InvalidArgument")]
  /\ UNCHANGED <<sequence_, execute_mutex_, requests, replies, regs, op,
                 timeout, attempts, resyncs>>

\* One attempt up to send_control: take the mutex, take the sequence number,
\* serialize, send.
Attempt(t) ==
  /\ rc[t].st = "loop"
  /\ Aligned(rc[t].address)
  /\ CanLock(t)
  /\ attempts < MaxAttempts
  /\ execute_mutex_' = t
  /\ sequence_' = next_sequence(sequence_)
  /\ attempts' = attempts + 1
  /\ requests' = requests \cup {Request(rc[t], sequence_, attempts + 1)}
  /\ rc' = [rc EXCEPT ![t].st = "locked", ![t].count = @ + 1,
                      ![t].sequence = sequence_, ![t].att = attempts + 1,
                      ![t].seqs = Append(@, <<sequence_, resyncs>>)]
  /\ UNCHANGED <<replies, regs, op, timeout, resyncs>>

\* execute(): receive_control returned a datagram before the deadline; a
\* reply of another sequence number is dropped and the loop goes on.
Receive(t, r) ==
  /\ rc[t].st = "locked"
  /\ r \in replies
  /\ replies' = replies \ {r}
  /\ IF Matches(rc[t].sequence, r)
       THEN /\ rc' = [rc EXCEPT ![t].st = "finished", ![t].got = r,
                                ![t].outcome = Outcome(rc[t], r),
                                ![t].code = r.code,
                                ![t].result = Result(rc[t], r),
                                ![t].reported =
                                  add_retries(rc[t].count,
                                              Outcome(rc[t], r))]
            /\ execute_mutex_' = NoThread
       ELSE /\ rc' = [rc EXCEPT ![t].skipped = TRUE]
            /\ UNCHANGED execute_mutex_
  /\ UNCHANGED <<sequence_, requests, regs, op, timeout, attempts, resyncs>>

AfterNoReply_retrying(c, tmo) ==
  IF Retry(tmo) THEN "retry" ELSE "TimeoutError"

AfterNoReply_giveup(c, tmo) ==
  IF c.cmd = WR_DWORD /\ ~c.retry THEN "false" ELSE "TimeoutError"

\* The loop of read_uint32 / write_uint32 after an attempt that got no
\* reply: a write called with retry = false returns false; otherwise the
\* Timeout policy decides between another attempt and TimeoutError.
AfterNoReply(c, tmo) ==
  IF c.cmd = WR_DWORD /\ ~c.retry THEN "false"
  ELSE IF Retry(tmo) THEN "retry"
  ELSE "TimeoutError"

\* execute(): the deadline passes with no datagram taken from the socket
\* and receive_control returns empty; the caller's loop (read_uint32 /
\* write_uint32) then retries, gives up, or returns false.
ReceiveTimeout(t) ==
  /\ rc[t].st = "locked"
  /\ execute_mutex_' = NoThread
  /\ IF AfterNoReply(rc[t], timeout[t]) = "retry"
       THEN /\ rc' = [rc EXCEPT ![t].st = "loop"]
            /\ timeout' = [timeout EXCEPT ![t].retries = @ - 1]
       ELSE /\ rc' = [rc EXCEPT ![t].st = "finished",
                                ![t].outcome = AfterNoReply(rc[t], timeout[t]),
                                ![t].reported =
                                  add_retries(rc[t].count,
                                    AfterNoReply(rc[t], timeout[t]))]
            /\ UNCHANGED timeout
  /\ UNCHANGED <<sequence_, requests, replies, regs, op, attempts, resyncs>>

\* ------------------------------------------------------------- the device

ResponseCode(m) ==
  IF m.address \notin DeviceAddresses THEN RESPONSE_INVALID_ADDR
  ELSE RESPONSE_SUCCESS

Reply(m) ==
  [cmd |-> m.cmd, sequence |-> m.sequence, code |-> ResponseCode(m),
   address |-> m.address,
   value |-> IF m.cmd = RD_DWORD /\ ResponseCode(m) = RESPONSE_SUCCESS
               THEN regs[m.address] ELSE 0,
   att |-> m.att, ep |-> m.ep]

IsResetTrigger(m) ==
  m.cmd = WR_DWORD /\ m.address = RESET_REG /\ m.value = RESET_VALUE

Stores(m) == m.cmd = WR_DWORD /\ ResponseCode(m) = RESPONSE_SUCCESS

\* A request datagram reaches the device (any request sent so far, at any
\* time, any number of times) and is processed; the reply is put on the wire.
DeviceProcess(m) ==
  /\ m \in requests
  /\ ~IsResetTrigger(m)
  /\ replies' = replies \cup {Reply(m)}
  /\ regs' = IF Stores(m) THEN [regs EXCEPT ![m.address] = m.value] ELSE regs
  /\ UNCHANGED <<sequence_, execute_mutex_, requests, op, rc, timeout,
                 attempts, resyncs>>

\* The reset trigger reaches the device: it resets (registers back to their
\* initial values) and sends no reply.
DeviceReset(m) ==
  /\ m \in requests
  /\ IsResetTrigger(m)
  /\ regs' = InitRegs
  /\ UNCHANGED <<sequence_, execute_mutex_, requests, replies, op, rc,
                 timeout, attempts, resyncs>>

\* ------------------------------------------------------ public operations

\* read_uint32(address, timeout): entry.
CallRead(t, a, n) ==
  /\ op[t] = "idle"
  /\ attempts < MaxAttempts
  /\ op' = [op EXCEPT ![t] = "read"]
  /\ rc' = [rc EXCEPT ![t] = NewCall(RD_DWORD, a, 0, TRUE)]
  /\ timeout' = [timeout EXCEPT ![t] = NewTimeout(n)]
  /\ UNCHANGED <<sequence_, execute_mutex_, requests, replies, regs,
                 attempts, resyncs>>

\* write_uint32(address, value, timeout, retry): entry.
CallWrite(t, a, v, retry, n) ==
  /\ op[t] = "idle"
  /\ attempts < MaxAttempts
  /\ op' = [op EXCEPT ![t] = "write"]
  /\ rc' = [rc EXCEPT ![t] = NewCall(WR_DWORD, a, v, retry)]
  /\ timeout' = [timeout EXCEPT ![t] = NewTimeout(n)]
  /\ UNCHANGED <<sequence_, execute_mutex_, requests, replies, regs,
                 attempts, resyncs>>

\* read_uint32 / write_uint32: the call returns or rethrows.
Return(t) ==
  /\ op[t] \in {"read", "write"}
  /\ rc[t].st = "finished"
  /\ op' = [op EXCEPT ![t] = "idle"]
  /\ rc' = [rc EXCEPT ![t] = NoCall]
  /\ UNCHANGED <<sequence_, execute_mutex_, requests, replies, regs, timeout,
                 attempts, resyncs>>

\* reset(): the reset trigger write, write_uint32(0x4, 0x8, nullptr, false).
ResetStart(t) ==
  /\ op[t] = "idle"
  /\ attempts < MaxAttempts
  /\ resyncs < MaxResyncs
  /\ op' = [op EXCEPT ![t] = "reset_trigger"]
  /\ rc' = [rc EXCEPT ![t] = NewCall(WR_DWORD, RESET_REG, RESET_VALUE, FALSE)]
  /\ timeout' = [timeout EXCEPT ![t] = NewTimeout(MaxRetries)]
  /\ UNCHANGED <<sequence_, execute_mutex_, requests, replies, regs,
                 attempts, resyncs>>

Resynchronised_kept(s) == s

\* sequence_ = 1: the device has reset its latched sequence number to 0, so
\* the next request should carry 1, whatever the counter was.
Resynchronised(s) == 1

\* reset(): whatever the trigger write did (its error is ignored), wait for
\* the device to enumerate; when found, seed the ARP cache, set
\* sequence_ = 1 and read the firmware version. Not found: reset() throws.
ResetResync(t, found, n) ==
  /\ op[t] = "reset_trigger"
  /\ rc[t].st = "finished"
  /\ IF found
       THEN /\ sequence_' = Resynchronised(sequence_)
            /\ resyncs' = resyncs + 1
            /\ op' = [op EXCEPT ![t] = "reset_version"]
            /\ rc' = [rc EXCEPT ![t] = NewCall(RD_DWORD, FPGA_VERSION, 0, TRUE)]
            /\ timeout' = [timeout EXCEPT ![t] = NewTimeout(n)]
       ELSE /\ op' = [op EXCEPT ![t] = "idle"]
            /\ rc' = [rc EXCEPT ![t] = NoCall]
            /\ UNCHANGED <<sequence_, resyncs, timeout>>
  /\ UNCHANGED <<execute_mutex_, requests, replies, regs, attempts>>

\* reset(): the version read returned or threw; reset() ends.
ResetDone(t) ==
  /\ op[t] = "reset_version"
  /\ rc[t].st = "finished"
  /\ op' = [op EXCEPT ![t] = "idle"]
  /\ rc' = [rc EXCEPT ![t] = NoCall]
  /\ UNCHANGED <<sequence_, execute_mutex_, requests, replies, regs, timeout,
                 attempts, resyncs>>

\* ------------------------------------------- the register access protocol
\* Two threads of one process on one session: reads of a mapped, an
\* unmapped and a misaligned address, writes, and reset().
Next ==
  \/ \E t \in Threads : AttemptInvalid(t) /\ UNCHANGED <<rt, locks, ext>>
  \/ \E t \in Threads : Attempt(t) /\ UNCHANGED <<rt, locks, ext>>
  \/ \E t \in Threads : \E r \in replies : Receive(t, r) /\ UNCHANGED <<rt, locks, ext>>
  \/ \E t \in Threads : ReceiveTimeout(t) /\ UNCHANGED <<rt, locks, ext>>
  \/ \E m \in requests : DeviceProcess(m) /\ UNCHANGED <<rt, locks, ext>>
  \/ \E m \in requests : DeviceReset(m) /\ UNCHANGED <<rt, locks, ext>>
  \/ \E t \in Threads : \E a \in Addresses :
       CallRead(t, a, MaxRetries) /\ UNCHANGED <<rt, locks, ext>>
  \/ \E t \in Threads : CallWrite(t, DATA_REG, 1, TRUE, MaxRetries) /\ UNCHANGED <<rt, locks, ext>>
  \/ \E t \in Threads : Return(t) /\ UNCHANGED <<rt, locks, ext>>
  \/ \E t \in Threads : ResetStart(t) /\ UNCHANGED <<rt, locks, ext>>
  \/ \E t \in Threads : \E f \in BOOLEAN :
       ResetResync(t, f, MaxRetries) /\ UNCHANGED <<rt, locks, ext>>
  \/ \E t \in Threads : ResetDone(t) /\ UNCHANGED <<rt, locks, ext>>

Spec == Init /\ [][Next]_vars

SpecWrap == InitWrap /\ [][Next]_vars

\* ------------------------------------------- the write-then-read round trip
\* One caller thread writes and reads DATA_REG; the network delays,
\* duplicates, reorders and loses datagrams. rt records the last write that
\* returned true (w), whether the read in progress began after it (expect),
\* and whether the device stored another value at the address since the
\* write began (dirty, and then w.clean = FALSE).
Caller == "t1"

RtCallWrite(v) ==
  /\ CallWrite(Caller, DATA_REG, v, TRUE, MaxRetries)
  /\ rt' = [w |-> NoWrite, expect |-> FALSE, dirty |-> FALSE]
  /\ UNCHANGED <<locks, ext>>

RtCallRead ==
  /\ CallRead(Caller, DATA_REG, MaxRetries)
  /\ rt' = [rt EXCEPT !.expect = rt.w.valid]
  /\ UNCHANGED <<locks, ext>>

RtStored(m) ==
  [w |-> IF rt.w.valid /\ m.value # rt.w.value
           THEN [rt.w EXCEPT !.clean = FALSE] ELSE rt.w,
   expect |-> rt.expect,
   dirty |-> rt.dirty \/ (op[Caller] = "write" /\ m.value # rc[Caller].value)]

RtDeviceProcess(m) ==
  /\ DeviceProcess(m)
  /\ rt' = IF Stores(m) THEN RtStored(m) ELSE rt
  /\ UNCHANGED <<locks, ext>>

RtReturn ==
  /\ Return(Caller)
  /\ rt' = IF op[Caller] = "write"
             THEN [w |-> IF rc[Caller].outcome = "ok"
                           THEN [valid |-> TRUE, value |-> rc[Caller].value,
                                 clean |-> /\ ~rt.dirty
                                           /\ rc[Caller].got.att = rc[Caller].att]
                           ELSE NoWrite,
                   expect |-> FALSE, dirty |-> FALSE]
             ELSE [rt EXCEPT !.expect = FALSE]
  /\ UNCHANGED <<locks, ext>>

NextRt ==
  \/ Attempt(Caller) /\ UNCHANGED <<rt, locks, ext>>
  \/ \E r \in replies : Receive(Caller, r) /\ UNCHANGED <<rt, locks, ext>>
  \/ ReceiveTimeout(Caller) /\ UNCHANGED <<rt, locks, ext>>
  \/ \E m \in requests : RtDeviceProcess(m)
  \/ \E v \in Values : RtCallWrite(v)
  \/ RtCallRead
  \/ RtReturn

SpecRt == Init /\ [][NextRt]_vars

\* ------------------------------------------------------ the named locks
\* NamedLock::lock is lockf(fd_, F_LOCK, 0) on the lock file and unlock is
\* lockf(fd_, F_ULOCK, 0). A lockf lock belongs to the process: F_LOCK
\* blocks while another process holds the lock and returns at once when the
\* calling process holds it already; F_ULOCK drops the process's lock
\* whichever of its threads took it. i2c_lock(), spi_lock() and lock() hand
\* out one NamedLock per process.
\* Every register access is one step here: the exchange behind it is the
\* subject of Spec.
RECURSIVE BitAnd(_, _)
BitAnd(a, b) ==
  IF a = 0 \/ b = 0 THEN 0
  ELSE (a % 2) * (b % 2) + 2 * BitAnd(a \div 2, b \div 2)

RECURSIVE BitOr(_, _)
BitOr(a, b) ==
  IF a = 0 THEN b
  ELSE IF b = 0 THEN a
  ELSE (IF a % 2 = 1 \/ b % 2 = 1 THEN 1 ELSE 0)
         + 2 * BitOr(a \div 2, b \div 2)

Modify(kind, value, mask) ==
  IF kind = "and_uint32" THEN BitAnd(value, mask) ELSE BitOr(value, mask)

LockOf(kind) ==
  IF kind = "i2c_transaction" THEN I2C_LOCK
  ELSE IF kind = "spi_transaction" THEN SPI_LOCK
  ELSE DEVICE_LOCK

\* lockf(fd_, F_LOCK, 0) returns for a thread of process p
lockf_F_LOCK(p, n) == lock_owner[n] \in {NoProcess, p}

lockf_F_ULOCK_kept(p, n) == lock_owner

\* lockf(fd_, F_ULOCK, 0) called by a thread of process p
lockf_F_ULOCK(p, n) ==
  IF lock_owner[n] = p THEN [lock_owner EXCEPT ![n] = NoProcess]
  ELSE lock_owner

UnchangedSession ==
  UNCHANGED <<sequence_, execute_mutex_, requests, replies, op, rc, timeout,
              attempts, resyncs, rt, ext>>

\* i2c_transaction / spi_transaction up to the lock_guard
CallBus(w, kind) ==
  /\ worker[w] = Idle
  /\ worker' = [worker EXCEPT ![w] = [op |-> kind, pc |-> "lock"]]
  /\ UNCHANGED <<lock_owner, rmw_log, regs>>
  /\ UnchangedSession

\* and_uint32 / or_uint32 up to the lock_guard
CallRmw(w, kind, mask) ==
  /\ worker[w] = Idle
  /\ Len(rmw_log) < MaxRmw
  /\ worker' = [worker EXCEPT ![w] =
                  [op |-> kind, pc |-> "lock", mask |-> mask, value |-> 0]]
  /\ rmw_log' = Append(rmw_log, [kind |-> kind, mask |-> mask])
  /\ UNCHANGED <<lock_owner, regs>>
  /\ UnchangedSession

\* std::lock_guard's constructor: NamedLock::lock
NamedLock_lock(w) ==
  /\ worker[w].op # "idle" /\ worker[w].pc = "lock"
  /\ lockf_F_LOCK(ProcessOf(w), LockOf(worker[w].op))
  /\ lock_owner' = [lock_owner EXCEPT ![LockOf(worker[w].op)] = ProcessOf(w)]
  /\ worker' = [worker EXCEPT ![w].pc =
                  IF worker[w].op \in {"i2c_transaction", "spi_transaction"}
                    THEN BusPhases[1] ELSE "read"]
  /\ UNCHANGED <<rmw_log, regs>>
  /\ UnchangedSession

PhaseIndex(ph) == CHOOSE i \in 1..Len(BusPhases) : BusPhases[i] = ph

InPhase(w) ==
  /\ worker[w].op \in {"i2c_transaction", "spi_transaction"}
  /\ \E i \in 1..Len(BusPhases) : worker[w].pc = BusPhases[i]

\* the register accesses of the transaction, one phase after the other
BusAccess(w) ==
  /\ InPhase(w)
  /\ worker' = [worker EXCEPT ![w].pc =
                  IF PhaseIndex(worker[w].pc) = Len(BusPhases) THEN "return"
                  ELSE BusPhases[PhaseIndex(worker[w].pc) + 1]]
  /\ UNCHANGED <<lock_owner, rmw_log, regs>>
  /\ UnchangedSession

\* a register access of the transaction throws (BUSY set, TimeoutError)
BusThrow(w) ==
  /\ InPhase(w)
  /\ worker' = [worker EXCEPT ![w].pc = "return"]
  /\ UNCHANGED <<lock_owner, rmw_log, regs>>
  /\ UnchangedSession

\* uint32_t value = read_uint32(address)
RmwRead(w) ==
  /\ worker[w].op \in {"and_uint32", "or_uint32"} /\ worker[w].pc = "read"
  /\ worker' = [worker EXCEPT ![w].value = regs[DATA_REG], ![w].pc = "write"]
  /\ UNCHANGED <<lock_owner, rmw_log, regs>>
  /\ UnchangedSession

\* value &= mask (value |= mask); return write_uint32(address, value)
RmwWrite(w) ==
  /\ worker[w].op \in {"and_uint32", "or_uint32"} /\ worker[w].pc = "write"
  /\ regs' = [regs EXCEPT ![DATA_REG] =
                Modify(worker[w].op, worker[w].value, worker[w].mask)]
  /\ worker' = [worker EXCEPT ![w].pc = "return"]
  /\ UNCHANGED <<lock_owner, rmw_log>>
  /\ UnchangedSession

\* std::lock_guard's destructor: NamedLock::unlock, and the call returns
NamedLock_unlock(w) ==
  /\ worker[w].op # "idle" /\ worker[w].pc = "return"
  /\ lock_owner' = lockf_F_ULOCK(ProcessOf(w), LockOf(worker[w].op))
  /\ worker' = [worker EXCEPT ![w] = Idle]
  /\ UNCHANGED <<rmw_log, regs>>
  /\ UnchangedSession

NextLock ==
  \/ \E w \in Workers : \E k \in {"i2c_transaction", "spi_transaction"} :
       CallBus(w, k)
  \/ \E w \in Workers : \E k \in {"and_uint32", "or_uint32"} :
       \E m \in Values : CallRmw(w, k, m)
  \/ \E w \in Workers : NamedLock_lock(w)
  \/ \E w \in Workers : BusAccess(w)
  \/ \E w \in Workers : BusThrow(w)
  \/ \E w \in Workers : RmwRead(w)
  \/ \E w \in Workers : RmwWrite(w)
  \/ \E w \in Workers : NamedLock_unlock(w)

SpecLock == Init /\ [][NextLock]_vars

\* ------------------------------------------- release of the named locks
\* The kernel drops a process's lockf locks when the process terminates.
Dead(w) == worker[w].op = "dead"

HeldBy(w) ==
  IF worker[w].op \in {"idle", "dead"} \/ worker[w].pc = "lock" THEN {}
  ELSE {LockOf(worker[w].op)}

\* the process p terminates (exit, signal) wherever its threads are
Terminate(p) ==
  /\ \E w \in Workers : ProcessOf(w) = p /\ ~Dead(w)
  /\ worker' = [w \in Workers |->
                  IF ProcessOf(w) = p THEN [op |-> "dead", pc |-> "dead", held |-> HeldBy(w)]
                  ELSE worker[w]]
  /\ lock_owner' = [n \in LockNames |->
                      IF lock_owner[n] = p THEN NoProcess ELSE lock_owner[n]]
  /\ UNCHANGED <<rmw_log, regs>>
  /\ UnchangedSession

Running(w) ==
  BusAccess(w) \/ RmwRead(w) \/ RmwWrite(w) \/ NamedLock_unlock(w)

NextRelease ==
  \/ \E w \in Workers : CallBus(w, "i2c_transaction")
  \/ \E w \in Workers : CallRmw(w, "or_uint32", 1)
  \/ \E w \in Workers : NamedLock_lock(w)
  \/ \E w \in Workers : BusAccess(w)
  \/ \E w \in Workers : BusThrow(w)
  \/ \E w \in Workers : RmwRead(w)
  \/ \E w \in Workers : RmwWrite(w)
  \/ \E w \in Workers : NamedLock_unlock(w)
  \/ \E p \in Processes : Terminate(p)

\* A thread inside a locked operation keeps running until it returns, and a
\* thread blocked in lockf is granted the lock if the lock is free again and
\* again.
FairRelease ==
  \A w \in Workers : WF_vars(Running(w)) /\ SF_vars(NamedLock_lock(w))

SpecRelease == Init /\ [][NextRelease]_vars /\ FairRelease

\* ------------------------------------------------------ i2c_transaction
\* One thread runs i2c_transaction; every read_uint32/write_uint32 it calls
\* is one step against the I2C core, whose control register reads back any
\* combination of the BUSY and DONE bits. i2c.log lists the register
\* accesses issued, in order.
I2C_BUSY == "I2C_BUSY"
I2C_DONE == "I2C_DONE"
I2C_CORE_EN == "I2C_CORE_EN"
I2C_DONE_CLEAR == "I2C_DONE_CLEAR"
I2C_START == "I2C_START"
ControlValues == SUBSET {I2C_BUSY, I2C_DONE}

I2cPeripherals == {80, 128}
I2cWriteBytes == {<<>>, <<17>>, <<1, 2, 3, 4, 5>>, [i \in 1..256 |-> 0]}
I2cReadCounts == {0, 5, 256}
DataWords == {0, 67305985}

IsBusy_never(value) == FALSE

IsBusy(value) == I2C_BUSY \in value

\* the argument checks at the head of i2c_transaction
I2cArgsValid(peripheral_i2c_address, write_bytes, read_byte_count) ==
  /\ peripheral_i2c_address < 128
  /\ Len(write_bytes) < 256
  /\ read_byte_count < 256

Byte(bytes, k) == IF k <= Len(bytes) THEN bytes[k] ELSE 0

\* the word written to reg_data_buffer_ + index (index counts from 0)
PackWord(bytes, index) ==
  Byte(bytes, index + 1) + Byte(bytes, index + 2) * 256
    + Byte(bytes, index + 3) * 65536 + Byte(bytes, index + 4) * 16777216

UnpackWord_big_endian(value) ==
  << (value \div 16777216) % 256, (value \div 65536) % 256,
     (value \div 256) % 256, value % 256 >>

\* the four bytes taken from a word read from reg_data_buffer_
UnpackWord(value) ==
  << value % 256, (value \div 256) % 256, (value \div 65536) % 256,
     (value \div 16777216) % 256 >>

WordCount(read_byte_count) == (read_byte_count + 3) \div 4

Rd(reg, value) == [kind |-> "read", reg |-> reg, value |-> value]
Wr(reg, value) == [kind |-> "write", reg |-> reg, value |-> value]

I2cFail(error) ==
  [i2c EXCEPT !.pc = "failed", !.error = error, !.locked = FALSE]

I2cOthers ==
  UNCHANGED <<core, rt, locks, lockfile, spi, gpio, control_socket_, life,
            receiver>>

I2cCall(peripheral_i2c_address, write_bytes, read_byte_count, n) ==
  /\ i2c.pc = "idle"
  /\ i2c' = [pc |-> IF I2cArgsValid(peripheral_i2c_address, write_bytes,
                                    read_byte_count)
                      THEN "lock" ELSE "failed",
             peripheral |-> peripheral_i2c_address,
             write_bytes |-> write_bytes,
             read_byte_count |-> read_byte_count,
             timeout |-> NewTimeout(n), index |-> 0, log |-> <<>>,
             locked |-> FALSE, r |-> <<>>,
             error |-> IF I2cArgsValid(peripheral_i2c_address, write_bytes,
                                       read_byte_count)
                         THEN "none" ELSE "runtime_error"]
  /\ I2cOthers

\* std::lock_guard lock(i2c_lock())
I2cLock ==
  /\ i2c.pc = "lock"
  /\ i2c' = [i2c EXCEPT !.pc = "busy_check", !.locked = TRUE]
  /\ I2cOthers

\* value = read_uint32(reg_control_); if (value & I2C_BUSY) throw
I2cBusyCheck(value) ==
  /\ i2c.pc = "busy_check"
  /\ i2c' = [(IF IsBusy(value) THEN I2cFail("runtime_error")
              ELSE [i2c EXCEPT !.pc = "done_clear"])
               EXCEPT !.log = Append(i2c.log, Rd("reg_control_", value))]
  /\ I2cOthers

\* write_uint32(reg_control_, address | I2C_CORE_EN | I2C_DONE_CLEAR)
I2cDoneClear ==
  /\ i2c.pc = "done_clear"
  /\ i2c' = [i2c EXCEPT !.pc = "enable",
               !.log = Append(i2c.log,
                        Wr("reg_control_",
                           <<i2c.peripheral, {I2C_CORE_EN, I2C_DONE_CLEAR}>>))]
  /\ I2cOthers

\* write_uint32(reg_control_, address | I2C_CORE_EN)
I2cEnable ==
  /\ i2c.pc = "enable"
  /\ i2c' = [i2c EXCEPT !.pc = "check_done",
               !.log = Append(i2c.log,
                        Wr("reg_control_", <<i2c.peripheral, {I2C_CORE_EN}>>))]
  /\ I2cOthers

\* value = read_uint32(reg_control_); assert((value & I2C_DONE) == 0): the
\* assert ends the process in a build with assertions and is skipped in one
\* without
I2cCheckDone(value, asserts) ==
  /\ i2c.pc = "check_done"
  /\ i2c' = [i2c EXCEPT
               !.pc = IF I2C_DONE \in value /\ asserts THEN "aborted"
                      ELSE "num_bytes",
               !.log = Append(i2c.log, Rd("reg_control_", value))]
  /\ I2cOthers

num_bytes_swapped(write_byte_count, read_byte_count) ==
  read_byte_count + write_byte_count * 256

\* num_bytes = (write_byte_count << 0) | (read_byte_count << 8)
num_bytes(write_byte_count, read_byte_count) ==
  write_byte_count + read_byte_count * 256

\* write_uint32(reg_num_bytes_, num_bytes)
I2cNumBytes ==
  /\ i2c.pc = "num_bytes"
  /\ i2c' = [i2c EXCEPT
               !.pc = IF Len(i2c.write_bytes) = 0 THEN "start" ELSE "data",
               !.index = 0,
               !.log = Append(i2c.log,
                        Wr("reg_num_bytes_",
                           num_bytes(Len(i2c.write_bytes),
                                     i2c.read_byte_count)))]
  /\ I2cOthers

\* write_uint32(reg_data_buffer_ + index, value), index += 4
I2cWriteData ==
  /\ i2c.pc = "data"
  /\ i2c' = [i2c EXCEPT
               !.pc = IF i2c.index + 4 < Len(i2c.write_bytes) THEN "data"
                      ELSE "start",
               !.index = i2c.index + 4,
               !.log = Append(i2c.log,
                        Wr(<<"reg_data_buffer_", i2c.index>>,
                           PackWord(i2c.write_bytes, i2c.index)))]
  /\ I2cOthers

\* write_uint32(reg_control_, address | I2C_CORE_EN | I2C_START)
I2cStart ==
  /\ i2c.pc = "start"
  /\ i2c' = [i2c EXCEPT !.pc = "started",
               !.log = Append(i2c.log,
                        Wr("reg_control_",
                           <<i2c.peripheral, {I2C_CORE_EN, I2C_START}>>))]
  /\ I2cOthers

SeenDoneOrBusy_done_only(value) == I2C_DONE \in value

\* value & (I2C_DONE | I2C_BUSY)
SeenDoneOrBusy(value) == value \cap {I2C_DONE, I2C_BUSY} # {}

\* value = read_uint32(reg_control_); break if DONE or BUSY, else retry
I2cStarted(value) ==
  /\ i2c.pc = "started"
  /\ i2c' = [(IF SeenDoneOrBusy(value) THEN [i2c EXCEPT !.pc = "poll"]
              ELSE IF Retry(i2c.timeout)
                THEN [i2c EXCEPT !.pc = "start",
                                 !.timeout.retries = i2c.timeout.retries - 1]
              ELSE I2cFail("TimeoutError"))
               EXCEPT !.log = Append(i2c.log, Rd("reg_control_", value))]
  /\ I2cOthers

\* value = read_uint32(reg_control_); break if DONE, else retry
I2cPoll(value) ==
  /\ i2c.pc = "poll"
  /\ i2c' = [(IF I2C_DONE \in value
                THEN [i2c EXCEPT
                        !.pc = IF WordCount(i2c.read_byte_count) = 0
                                 THEN "done" ELSE "read_data",
                        !.locked = WordCount(i2c.read_byte_count) # 0,
                        !.index = 0]
              ELSE IF Retry(i2c.timeout)
                THEN [i2c EXCEPT !.timeout.retries = i2c.timeout.retries - 1]
              ELSE I2cFail("TimeoutError"))
               EXCEPT !.log = Append(i2c.log, Rd("reg_control_", value))]
  /\ I2cOthers

\* value = read_uint32(reg_data_buffer_ + i * 4); r.resize(read_byte_count)
I2cReadData(value) ==
  /\ i2c.pc = "read_data"
  /\ i2c' = [i2c EXCEPT
               !.pc = IF i2c.index + 1 < WordCount(i2c.read_byte_count)
                        THEN "read_data" ELSE "done",
               !.locked = i2c.index + 1 < WordCount(i2c.read_byte_count),
               !.index = i2c.index + 1,
               !.r = IF i2c.index + 1 < WordCount(i2c.read_byte_count)
                       THEN i2c.r \o UnpackWord(value)
                       ELSE SubSeq(i2c.r \o UnpackWord(value), 1,
                                   i2c.read_byte_count),
               !.log = Append(i2c.log,
                        Rd(<<"reg_data_buffer_", i2c.index * 4>>, value))]
  /\ I2cOthers

I2cAccessing ==
  i2c.pc \in {"busy_check", "done_clear", "enable", "check_done", "num_bytes",
              "data", "start", "started", "poll", "read_data"}

\* the read_uint32 or write_uint32 the transaction is about to make throws
\* (TimeoutError after its retries, or an error reply)
I2cThrow(error) ==
  /\ I2cAccessing
  /\ i2c' = [I2cFail(error) EXCEPT
               !.log = Append(i2c.log,
                        [kind |-> "throw", reg |-> i2c.pc, value |-> error])]
  /\ I2cOthers

\* i2c_transaction has returned or thrown; the next call can be made
I2cReturn ==
  /\ i2c.pc \in {"done", "failed"}
  /\ i2c' = I2cIdle
  /\ I2cOthers

NextI2c ==
  \/ \E a \in I2cPeripherals : \E wb \in I2cWriteBytes :
       \E n \in I2cReadCounts : I2cCall(a, wb, n, MaxRetries)
  \/ I2cLock
  \/ \E v \in ControlValues : I2cBusyCheck(v)
  \/ I2cDoneClear
  \/ I2cEnable
  \/ \E v \in ControlValues : \E b \in BOOLEAN : I2cCheckDone(v, b)
  \/ I2cNumBytes
  \/ I2cWriteData
  \/ I2cStart
  \/ \E v \in ControlValues : I2cStarted(v)
  \/ \E v \in ControlValues : I2cPoll(v)
  \/ \E v \in DataWords : I2cReadData(v)
  \/ \E e \in {"TimeoutError", "runtime_error"} : I2cThrow(e)
  \/ I2cReturn

SpecI2c == Init /\ [][NextI2c]_vars

\* ------------------------------------------------------ spi_transaction
\* The caller thread runs spi_transaction. The accesses that program the
\* transfer (busy check, configuration, payload, byte counts) are one step;
\* the START write, the BUSY poll and the read back are register calls of
\* the session, with their exchanges on the lossy network.
reg_control_ == SPI_ADDRESS + 0
reg_data_buffer_ == SPI_ADDRESS + 16

SpiStartRetry_true == TRUE

\* the retry argument of the START write
SpiStartRetry == FALSE

SpiOthers ==
  UNCHANGED <<rt, locks, lockfile, i2c, gpio, control_socket_, life,
            receiver>>

SpiFail(error) == [spi EXCEPT !.pc = "failed", !.error = error, !.locked = FALSE]

\* spi_transaction entered, size checks passed
SpiCall ==
  /\ spi.pc = "idle" /\ op[Caller] = "idle"
  /\ attempts < MaxAttempts
  /\ spi' = [pc |-> "setup", base |-> attempts, locked |-> FALSE,
             error |-> "none", starts |-> 0]
  /\ UNCHANGED core
  /\ SpiOthers

\* lock_guard(spi_lock()); busy check; spi_cfg, data buffer and byte count
\* registers written
SpiSetup ==
  /\ spi.pc = "setup"
  /\ spi' = [spi EXCEPT !.pc = "start", !.locked = TRUE]
  /\ UNCHANGED core
  /\ SpiOthers

\* status = write_uint32(reg_control_, SPI_START, timeout, false)
SpiStart ==
  /\ spi.pc = "start"
  /\ CallWrite(Caller, reg_control_, SPI_START, SpiStartRetry, MaxRetries)
  /\ spi' = [spi EXCEPT !.pc = "start_wait", !.starts = @ + 1]
  /\ SpiOthers

\* the exception a finished register call leaves spi_transaction with
Thrown(c) ==
  IF c.outcome \in {"ok", "false"} THEN "none"
  ELSE IF c.outcome = "TimeoutError" THEN "TimeoutError"
  ELSE "runtime_error"

\* if (!status) throw std::runtime_error("ACK failure ...")
SpiStarted ==
  /\ spi.pc = "start_wait"
  /\ Return(Caller)
  /\ spi' = IF rc[Caller].outcome = "ok" THEN [spi EXCEPT !.pc = "poll"]
            ELSE IF rc[Caller].outcome = "false" THEN SpiFail("runtime_error")
            ELSE SpiFail(Thrown(rc[Caller]))
  /\ SpiOthers

\* value = read_uint32(reg_control_, timeout)
SpiPoll ==
  /\ spi.pc = "poll"
  /\ CallRead(Caller, reg_control_, timeout[Caller].retries)
  /\ spi' = [spi EXCEPT !.pc = "poll_wait"]
  /\ SpiOthers

\* busy = value & SPI_BUSY; leave the loop when 0, else retry or TimeoutError
SpiPolled ==
  /\ spi.pc = "poll_wait"
  /\ rc[Caller].st = "finished"
  /\ op' = [op EXCEPT ![Caller] = "idle"]
  /\ rc' = [rc EXCEPT ![Caller] = NoCall]
  /\ IF Thrown(rc[Caller]) # "none"
       THEN spi' = SpiFail(Thrown(rc[Caller])) /\ UNCHANGED timeout
       ELSE IF BitAnd(rc[Caller].result, SPI_BUSY) = 0
         THEN spi' = [spi EXCEPT !.pc = "read"] /\ UNCHANGED timeout
       ELSE IF Retry(timeout[Caller])
         THEN /\ spi' = [spi EXCEPT !.pc = "poll"]
              /\ timeout' = [timeout EXCEPT ![Caller].retries = @ - 1]
       ELSE spi' = SpiFail("TimeoutError") /\ UNCHANGED timeout
  /\ UNCHANGED <<sequence_, execute_mutex_, requests, replies, regs,
                 attempts, resyncs>>
  /\ SpiOthers

\* value = read_uint32(reg_data_buffer_ + i, timeout)
SpiRead ==
  /\ spi.pc = "read"
  /\ CallRead(Caller, reg_data_buffer_, timeout[Caller].retries)
  /\ spi' = [spi EXCEPT !.pc = "read_wait"]
  /\ SpiOthers

SpiReadDone ==
  /\ spi.pc = "read_wait"
  /\ Return(Caller)
  /\ spi' = IF Thrown(rc[Caller]) # "none" THEN SpiFail(Thrown(rc[Caller]))
            ELSE [spi EXCEPT !.pc = "done", !.locked = FALSE]
  /\ SpiOthers

\* spi_transaction has returned or thrown; the next call can be made
SpiReturn ==
  /\ spi.pc \in {"done", "failed"}
  /\ spi' = SpiIdle
  /\ UNCHANGED core
  /\ SpiOthers

NextSpi ==
  \/ SpiCall
  \/ SpiSetup
  \/ SpiStart
  \/ SpiStarted
  \/ SpiPoll
  \/ SpiPolled
  \/ SpiRead
  \/ SpiReadDone
  \/ SpiReturn
  \/ Attempt(Caller) /\ UNCHANGED <<rt, locks, ext>>
  \/ \E r \in replies : Receive(Caller, r) /\ UNCHANGED <<rt, locks, ext>>
  \/ ReceiveTimeout(Caller) /\ UNCHANGED <<rt, locks, ext>>
  \/ \E m \in requests : DeviceProcess(m) /\ UNCHANGED <<rt, locks, ext>>

SpecSpi == Init /\ [][NextSpi]_vars

\* ------------------------------------------- calls with any address
\* One thread calls read_uint32 and write_uint32 (with and without retry)
\* with aligned, unmapped and misaligned addresses.
NextAlign ==
  \/ \E a \in Addresses : CallRead(Caller, a, MaxRetries) /\ UNCHANGED <<rt, locks, ext>>
  \/ \E a \in Addresses : \E retry \in BOOLEAN :
       CallWrite(Caller, a, 1, retry, MaxRetries) /\ UNCHANGED <<rt, locks, ext>>
  \/ AttemptInvalid(Caller) /\ UNCHANGED <<rt, locks, ext>>
  \/ Attempt(Caller) /\ UNCHANGED <<rt, locks, ext>>
  \/ \E r \in replies : Receive(Caller, r) /\ UNCHANGED <<rt, locks, ext>>
  \/ ReceiveTimeout(Caller) /\ UNCHANGED <<rt, locks, ext>>
  \/ \E m \in requests : DeviceProcess(m) /\ UNCHANGED <<rt, locks, ext>>
  \/ Return(Caller) /\ UNCHANGED <<rt, locks, ext>>

SpecAlign == Init /\ [][NextAlign]_vars

\* --------------------------------------- spi_transaction's size checks
\* read_byte_count is a uint32_t: it is kept as two 16-bit halves so that
\* the 32-bit sum write_byte_count + read_byte_count wraps as in the code.
HalfMod == 65536
SPI_BUFFER_SIZE == 288
SPI_COMMAND_LIMIT == 16

U32(hi, lo) == [hi |-> hi, lo |-> lo]

\* uint32_t sum of a uint32_t and a small count
Add32(x, n) ==
  [hi |-> (x.hi + (x.lo + n) \div HalfMod) % HalfMod,
   lo |-> (x.lo + n) % HalfMod]

AtLeast(x, n) == x.hi > 0 \/ x.lo >= n

SpiCommandCounts == {0, 1, 15, 16}
SpiDataCounts == {0, 271, 272, 273, 287}
SpiReadCounts ==
  {U32(0, 0), U32(0, 1), U32(0, 15), U32(0, 16), U32(0, 287), U32(0, 288),
   U32(HalfMod - 1, HalfMod - 1), U32(HalfMod - 1, HalfMod - 288)}

\* buffer_count = write_byte_count + read_byte_count
buffer_count(write_command_count, write_data_count, read_byte_count) ==
  Add32(read_byte_count, write_command_count + write_data_count)

\* the two size checks at the head of spi_transaction
SpiSizesValid(write_command_count, write_data_count, read_byte_count) ==
  /\ ~(write_command_count >= SPI_COMMAND_LIMIT)
  /\ ~AtLeast(buffer_count(write_command_count, write_data_count,
                           read_byte_count), SPI_BUFFER_SIZE)

\* spi_transaction entered with any sizes: the checks throw, or the
\* transaction goes on to take the SPI lock
SpiEnter(write_command_count, write_data_count, read_byte_count) ==
  /\ spi.pc = "idle"
  /\ spi' = [pc |-> IF SpiSizesValid(write_command_count, write_data_count,
                                     read_byte_count)
                      THEN "setup" ELSE "failed",
             base |-> attempts, locked |-> FALSE, starts |-> 0,
             error |-> IF SpiSizesValid(write_command_count, write_data_count,
                                        read_byte_count)
                         THEN "none" ELSE "runtime_error",
             write_command_count |-> write_command_count,
             write_data_count |-> write_data_count,
             read_byte_count |-> read_byte_count]
  /\ UNCHANGED core
  /\ SpiOthers

NextSpiSizes ==
  \/ \E c \in SpiCommandCounts : \E d \in SpiDataCounts :
       \E r \in SpiReadCounts : SpiEnter(c, d, r)
  \/ SpiSetup
  \/ SpiReturn

SpecSpiSizes == Init /\ [][NextSpiSizes]_vars

\* ------------------------------------------------------------------ GPIO
\* One thread calls the GPIO functions of a 54-pin board; every
\* read_uint32/write_uint32 is one step. A register word is kept as the set
\* of its bits that are 1. gpio.log lists the register accesses of the call.
GPIO_IN == 1     \* GPIO::IN (IN is a reserved word)
OUT == 0
HIGH == 1
LOW == 0
gpio_pin_number_ == 54
GpioPins == {0, 1, 33, 54}
GpioArgs == {0, 1, 2}

set_bit_alone(value, bit) == {bit}

set_bit(value, bit) == value \cup {bit}
clear_bit(value, bit) == value \ {bit}
read_bit(value, bit) == IF bit \in value THEN 1 ELSE 0

Bank(pin) == pin \div 32
pin_bit(pin) == pin % 32

IsOut_always(direction) == TRUE

IsOut(direction) == direction = OUT

GpioOthers ==
  UNCHANGED <<core, rt, locks, lockfile, i2c, spi, control_socket_, life,
            receiver>>

GpioFail(error) == [gpio EXCEPT !.pc = "failed", !.error = error]

\* set_direction / get_direction / set_value / get_value entered: the pin
\* number is checked
GpioCall(fn, pin, arg) ==
  /\ gpio.pc = "idle"
  /\ gpio' = [pc |-> IF pin < gpio_pin_number_
                       THEN (IF fn = "get_value" THEN "read_status"
                             ELSE "read_direction")
                       ELSE "failed",
              fn |-> fn, pin |-> pin, arg |-> arg, reg_val |-> {},
              result |-> 0, log |-> <<>>,
              error |-> IF pin < gpio_pin_number_ THEN "none"
                        ELSE "runtime_error",
              direction |-> gpio.direction, output |-> gpio.output]
  /\ GpioOthers

\* hololink_.read_uint32(GPIO_DIRECTION_BASE_REGISTER + (pin / 32) * 4) in
\* set_direction, get_direction and (through get_direction) set_value
GpioReadDirection ==
  /\ gpio.pc = "read_direction"
  /\ LET reg_val == gpio.direction[Bank(gpio.pin)]
         bit == pin_bit(gpio.pin)
         logged == [gpio EXCEPT
                      !.log = Append(gpio.log,
                                <<"read", "GPIO_DIRECTION", Bank(gpio.pin),
                                  reg_val>>)]
     IN gpio' =
          IF gpio.fn = "get_direction"
            THEN [logged EXCEPT !.pc = "done",
                                !.result = read_bit(reg_val, bit)]
          ELSE IF gpio.fn = "set_value"
            THEN (IF IsOut(read_bit(reg_val, bit))
                    THEN [logged EXCEPT !.pc = "read_status"]
                    ELSE [logged EXCEPT !.pc = "failed",
                                        !.error = "runtime_error"])
          ELSE IF gpio.arg = GPIO_IN
            THEN [logged EXCEPT !.pc = "write",
                                !.reg_val = set_bit(reg_val, bit)]
          ELSE IF gpio.arg = OUT
            THEN [logged EXCEPT !.pc = "write",
                                !.reg_val = clear_bit(reg_val, bit)]
          ELSE [logged EXCEPT !.pc = "failed", !.error = "runtime_error"]
  /\ GpioOthers

\* hololink_.read_uint32(GPIO_STATUS_BASE_REGISTER + (pin / 32) * 4) in
\* set_value and get_value; the status shows the output bits and the levels
\* of the input pins
GpioReadStatus(levels) ==
  /\ gpio.pc = "read_status"
  /\ levels \subseteq gpio.direction[Bank(gpio.pin)]
  /\ LET reg_val == (gpio.output[Bank(gpio.pin)]
                       \ gpio.direction[Bank(gpio.pin)]) \cup levels
         bit == pin_bit(gpio.pin)
         logged == [gpio EXCEPT
                      !.log = Append(gpio.log,
                                <<"read", "GPIO_STATUS", Bank(gpio.pin),
                                  reg_val>>)]
     IN gpio' =
          IF gpio.fn = "get_value"
            THEN [logged EXCEPT !.pc = "done",
                                !.result = read_bit(reg_val, bit)]
          ELSE IF gpio.arg = HIGH
            THEN [logged EXCEPT !.pc = "write",
                                !.reg_val = set_bit(reg_val, bit)]
          ELSE IF gpio.arg = LOW
            THEN [logged EXCEPT !.pc = "write",
                                !.reg_val = clear_bit(reg_val, bit)]
          ELSE [logged EXCEPT !.pc = "failed", !.error = "runtime_error"]
  /\ GpioOthers

\* hololink_.write_uint32(register_address, reg_val): the direction register
\* in set_direction, the output register in set_value
GpioWrite ==
  /\ gpio.pc = "write"
  /\ gpio' =
       IF gpio.fn = "set_direction"
         THEN [gpio EXCEPT
                 !.pc = "done",
                 !.direction[Bank(gpio.pin)] = gpio.reg_val,
                 !.log = Append(gpio.log,
                           <<"write", "GPIO_DIRECTION", Bank(gpio.pin),
                             gpio.reg_val>>)]
         ELSE [gpio EXCEPT
                 !.pc = "done",
                 !.output[Bank(gpio.pin)] = gpio.reg_val,
                 !.log = Append(gpio.log,
                           <<"write", "GPIO_OUTPUT", Bank(gpio.pin),
                             gpio.reg_val>>)]
  /\ GpioOthers

\* the read_uint32 or write_uint32 the call is about to make throws
GpioThrow(error) ==
  /\ gpio.pc \in {"read_direction", "read_status", "write"}
  /\ gpio' = GpioFail(error)
  /\ GpioOthers

\* the call has returned or thrown; the next call can be made
GpioReturn ==
  /\ gpio.pc \in {"done", "failed"}
  /\ gpio' = [pc |-> "idle", direction |-> gpio.direction,
              output |-> gpio.output]
  /\ GpioOthers

NextGpio ==
  \/ \E fn \in {"set_direction", "get_direction", "set_value", "get_value"} :
       \E pin \in GpioPins : \E arg \in GpioArgs : GpioCall(fn, pin, arg)
  \/ GpioReadDirection
  \/ \E levels \in SUBSET {0, 1} : GpioReadStatus(levels)
  \/ GpioWrite
  \/ \E e \in {"TimeoutError", "runtime_error"} : GpioThrow(e)
  \/ GpioReturn

SpecGpio == Init /\ [][NextGpio]_vars

\* -------------------------------------------------------- start and stop
\* One thread starts and stops the session and calls read_uint32 and
\* write_uint32 in between. control_socket_ is "socket" after
\* control_socket_.reset(socket(...)) and "none" after control_socket_.reset().
NoSocket == "none"

sendto_fails_never(fd) == FALSE

\* sendto(control_socket_.get(), ...) < 0: no descriptor, no datagram.
sendto_fails(fd) == fd = NoSocket

SocketKept ==
  UNCHANGED <<rt, locks, lockfile, i2c, spi, gpio, control_socket_, life,
            receiver>>

\* Hololink::stop()
Stop(t) ==
  /\ op[t] = "idle"
  /\ control_socket_' = NoSocket
  /\ UNCHANGED <<core, rt, locks, lockfile, i2c, spi, gpio, life,
                 receiver>>

\* std::make_shared<Timeout>(30.f, 0.2f): a deadline of 30 s, retries
\* 0.2 s apart; n is the number of retries that fit
ExtendedTimeout(n) == [retries |-> n, timeout_s |-> 30, retry_s |-> "0.2"]

\* Hololink::start(): create the socket, then
\* get_fpga_version(get_fpga_version_timeout, /*check_sequence*/ false).
StartCall(t, n) ==
  /\ op[t] = "idle"
  /\ attempts < MaxAttempts
  /\ control_socket_' = "socket"
  /\ op' = [op EXCEPT ![t] = "start_version"]
  /\ rc' = [rc EXCEPT ![t] = [NewCall(RD_DWORD, FPGA_VERSION, 0, TRUE)
                                EXCEPT !.sequence_check = FALSE]]
  /\ timeout' = [timeout EXCEPT ![t] = ExtendedTimeout(n)]
  /\ UNCHANGED <<sequence_, execute_mutex_, requests, replies, regs,
                 attempts, resyncs>>
  /\ UNCHANGED <<rt, locks, lockfile, i2c, spi, gpio, life,
                 receiver>>

\* start(): the version read returned and get_fpga_date(), which is
\* read_uint32(FPGA_DATE) with no timeout and no check_sequence argument,
\* follows; or it threw and start() throws.
StartDate(t, n) ==
  /\ op[t] = "start_version"
  /\ rc[t].st = "finished"
  /\ IF rc[t].outcome = "ok"
       THEN /\ op' = [op EXCEPT ![t] = "start_date"]
            /\ rc' = [rc EXCEPT ![t] = NewCall(RD_DWORD, FPGA_DATE, 0, TRUE)]
            /\ timeout' = [timeout EXCEPT ![t] = NewTimeout(n)]
       ELSE /\ op' = [op EXCEPT ![t] = "idle"]
            /\ rc' = [rc EXCEPT ![t] = NoCall]
            /\ UNCHANGED timeout
  /\ UNCHANGED <<sequence_, execute_mutex_, requests, replies, regs,
                 attempts, resyncs>>
  /\ SocketKept

\* start(): get_fpga_date returned or threw; start() ends.
StartDone(t) ==
  /\ op[t] = "start_date"
  /\ rc[t].st = "finished"
  /\ op' = [op EXCEPT ![t] = "idle"]
  /\ rc' = [rc EXCEPT ![t] = NoCall]
  /\ UNCHANGED <<sequence_, execute_mutex_, requests, replies, regs, timeout,
                 attempts, resyncs>>
  /\ SocketKept

\* One attempt whose sendto succeeds.
AttemptSent(t) ==
  /\ ~sendto_fails(control_socket_)
  /\ Attempt(t)
  /\ SocketKept

\* One attempt whose sendto fails: the mutex was taken and the sequence
\* number consumed; send_control throws std::runtime_error, the lock_guard
\* is released and read_uint32 / write_uint32 rethrows.
AttemptNotSent(t) ==
  /\ rc[t].st = "loop"
  /\ Aligned(rc[t].address)
  /\ CanLock(t)
  /\ sendto_fails(control_socket_)
  /\ sequence_ - 1 - attempts < MaxSendFailures
  /\ sequence_' = next_sequence(sequence_)
  /\ rc' = [rc EXCEPT ![t].st = "finished", ![t].count = @ + 1,
                      ![t].outcome = "NotConnected",
                      ![t].reported =
                        add_retries(rc[t].count + 1, "NotConnected")]
  /\ UNCHANGED <<execute_mutex_, requests, replies, regs, op, timeout,
                 attempts, resyncs>>
  /\ SocketKept

NextStop ==
  \/ Stop(Caller)
  \/ StartCall(Caller, MaxRetries)
  \/ StartDate(Caller, MaxRetries)
  \/ StartDone(Caller)
  \/ \E a \in Addresses : CallRead(Caller, a, MaxRetries) /\ SocketKept
  \/ \E a \in Addresses : \E retry \in BOOLEAN :
       CallWrite(Caller, a, 1, retry, MaxRetries) /\ SocketKept
  \/ AttemptInvalid(Caller) /\ SocketKept
  \/ AttemptSent(Caller)
  \/ AttemptNotSent(Caller)
  \/ \E r \in replies : Receive(Caller, r) /\ SocketKept
  \/ ReceiveTimeout(Caller) /\ SocketKept
  \/ \E m \in requests : DeviceProcess(m) /\ SocketKept
  \/ Return(Caller) /\ SocketKept

SpecStop == Init /\ [][NextStop]_vars

\* ------------------------------------------------------ reset() in full
\* One thread registers reset listeners and calls reset(). Every statement
\* of reset() that calls out is one step, which returns or throws; a step
\* that makes register calls consumes sequence numbers. reset_run.trace
\* lists the steps taken, reset_run.notified the listeners invoked.
Listeners == {"a", "b"}

\* the statements of reset(), in program order
ResetSteps ==
  <<"get_spi", "spi_transaction_0C", "write_0x8_0", "spi_transaction_0F",
    "write_0x8_3", "reset_trigger", "find_channel", "arp_set",
    "sequence_1", "get_fpga_version", "reset_controllers">>

\* the steps that send register requests
RegisterSteps ==
  {"spi_transaction_0C", "write_0x8_0", "spi_transaction_0F", "write_0x8_3",
   "reset_trigger", "get_fpga_version"}

\* the steps that cannot throw: the assignment sequence_ = 1
NoThrowSteps == {"sequence_1"}

Caught_none(step) == FALSE

\* try { write_uint32(0x4, 0x8, nullptr, false); } catch (std::exception)
Caught(step) == step = "reset_trigger"

ListenerAt_reversed(controllers, k) == controllers[Len(controllers) + 1 - k]

\* for (reset_controller : reset_controllers_): the k-th one invoked
ListenerAt(controllers, k) == controllers[k]

StepIndex(step) == CHOOSE i \in 1..Len(ResetSteps) : ResetSteps[i] = step

StepAfter_resync_first(step) ==
  IF step = "reset_trigger" THEN "sequence_1"
  ELSE IF step = "sequence_1" THEN "find_channel"
  ELSE IF step = "find_channel" THEN "arp_set"
  ELSE IF step = "arp_set" THEN "get_fpga_version"
  ELSE ResetSteps[StepIndex(step) + 1]

\* the statement control reaches when step has returned
StepAfter(step) == ResetSteps[StepIndex(step) + 1]

LifeOthers ==
  UNCHANGED <<execute_mutex_, requests, replies, regs, op, rc, timeout,
              attempts, resyncs, rt, locks, lockfile, i2c, spi, gpio,
              control_socket_, framework, get_gpio_calls, receiver>>

\* Hololink::on_reset, called while no reset() is running (the record of
\* the last reset() is dropped); the same listener may be registered again
OnReset(reset_controller) ==
  /\ reset_run.pc \in {"idle", "done", "failed"}
  /\ Len(reset_controllers_) < MaxListeners
  /\ reset_controllers_' = Append(reset_controllers_, reset_controller)
  /\ reset_run' = ResetIdle
  /\ UNCHANGED sequence_
  /\ LifeOthers

\* reset() is called
ResetCall ==
  /\ reset_run.pc \in {"idle", "done", "failed"}
  /\ sequence_ < MaxSequence
  /\ reset_run' = [pc |-> ResetSteps[1], trace |-> <<>>, notified |-> <<>>]
  /\ UNCHANGED <<sequence_, reset_controllers_>>
  /\ LifeOthers

\* the loop over reset_controllers_ is entered with none registered, or has
\* invoked the last one: reset() returns
AfterStep(run, step) ==
  IF StepAfter(step) = "reset_controllers" /\ reset_controllers_ = <<>>
    THEN [run EXCEPT !.pc = "done"]
    ELSE [run EXCEPT !.pc = StepAfter(step)]

\* one statement before the listener loop runs: it returns (ok) or throws;
\* sent is the number of requests its register calls put on the wire
ResetStep(ok, sent) ==
  LET step == reset_run.pc
      logged == [reset_run EXCEPT !.trace = Append(@, <<step, ok>>)]
  IN /\ step \in {ResetSteps[i] : i \in 1..(Len(ResetSteps) - 1)}
     /\ ok \/ step \notin NoThrowSteps
     /\ IF step \in RegisterSteps THEN sent >= 1 ELSE sent = 0
     /\ step = "reset_trigger" => sent = 1
     /\ sequence_' =
          IF step = "sequence_1" THEN Resynchronised(sequence_)
          ELSE (sequence_ + sent) % SeqMod
     /\ reset_run' =
          IF ok \/ Caught(step) THEN AfterStep(logged, step)
          ELSE [logged EXCEPT !.pc = "failed"]
     /\ UNCHANGED reset_controllers_
     /\ LifeOthers

\* reset_controller->reset() of the next listener: it returns or throws
ResetNotify(ok) ==
  LET k == Len(reset_run.notified) + 1
      l == ListenerAt(reset_controllers_, k)
      logged == [reset_run EXCEPT
                   !.trace = Append(@, <<"reset_controllers", ok>>),
                   !.notified = Append(@, l)]
  IN /\ reset_run.pc = "reset_controllers"
     /\ k <= Len(reset_controllers_)
     /\ reset_run' =
          IF ~ok THEN [logged EXCEPT !.pc = "failed"]
          ELSE IF k = Len(reset_controllers_) THEN [logged EXCEPT !.pc = "done"]
          ELSE logged
     /\ UNCHANGED <<sequence_, reset_controllers_>>
     /\ LifeOthers

NextReset ==
  \/ \E l \in Listeners : OnReset(l)
  \/ ResetCall
  \/ \E ok \in BOOLEAN : \E sent \in 0..(MaxRetries + 1) : ResetStep(ok, sent)
  \/ \E ok \in BOOLEAN : ResetNotify(ok)

SpecReset == Init /\ [][NextReset]_vars

\* ------------------------------------------------ the session registry
\* from_enumeration_metadata and reset_framework, called one after the
\* other. A metadata record has or lacks each of serial_number, peer_ip and
\* control_port; a session object is identified by the ordinal of the call
\* that constructed it.
Missing == "missing"
MetadataRecords ==
  [serial_number : Serials \cup {Missing},
   peer_ip : {"192.168.0.2", "192.168.0.3", Missing},
   control_port : {"8192", Missing}]

Registered_never(registry, serial_number) == FALSE

\* it != hololink_by_serial_number.cend()
Registered(registry, serial_number) == registry[serial_number] # NoHandle

\* the exception from_enumeration_metadata throws for this metadata, if any
MetadataError(registry, metadata) ==
  IF metadata.serial_number = Missing THEN "no serial_number"
  ELSE IF Registered(registry, metadata.serial_number) THEN "none"
  ELSE IF metadata.peer_ip = Missing THEN "no peer_ip"
  ELSE IF metadata.control_port = Missing THEN "no control_port"
  ELSE "none"

\* std::make_shared<Hololink>(peer_ip, control_port, serial_number, ...)
NewHololink(id, metadata) ==
  [id |-> id, peer_ip |-> metadata.peer_ip,
   control_port |-> metadata.control_port,
   serial_number |-> metadata.serial_number]

FrameworkOthers ==
  UNCHANGED <<core, rt, locks, lockfile, i2c, spi, gpio, control_socket_,
              reset_controllers_, reset_run, get_gpio_calls, receiver>>

\* Hololink::from_enumeration_metadata
from_enumeration_metadata(metadata) ==
  LET registry == hololink_by_serial_number
      error == MetadataError(registry, metadata)
      id == Len(framework_calls) + 1
      r == IF error # "none" THEN NoHandle
           ELSE IF Registered(registry, metadata.serial_number)
             THEN registry[metadata.serial_number]
           ELSE NewHololink(id, metadata)
  IN /\ Len(framework_calls) < MaxFrameworkCalls
     /\ hololink_by_serial_number' =
          IF error = "none"
            THEN [registry EXCEPT ![metadata.serial_number] = r]
            ELSE registry
     /\ framework_calls' =
          Append(framework_calls,
                 [fn |-> "from_enumeration_metadata", metadata |-> metadata,
                  error |-> error, r |-> r, before |-> registry])
     /\ FrameworkOthers

\* Hololink::reset_framework: every entry is erased
reset_framework ==
  /\ Len(framework_calls) < MaxFrameworkCalls
  /\ hololink_by_serial_number' = [n \in Serials |-> NoHandle]
  /\ framework_calls' =
       Append(framework_calls,
              [fn |-> "reset_framework", before |-> hololink_by_serial_number])
  /\ FrameworkOthers

NextFramework ==
  \/ \E metadata \in MetadataRecords : from_enumeration_metadata(metadata)
  \/ reset_framework

SpecFramework == Init /\ [][NextFramework]_vars

\* -------------------------------------------------------------- get_gpio
\* get_gpio is called with the metadata of boards of every kind. A board id
\* is written by the name of its constant; "0x7F" is an id no constant
\* names, and the metadata may have no board_id at all.
HOLOLINK_NANO_BOARD_ID == "HOLOLINK_NANO_BOARD_ID"
HOLOLINK_LITE_BOARD_ID == "HOLOLINK_LITE_BOARD_ID"
MICROCHIP_POLARFIRE_BOARD_ID == "MICROCHIP_POLARFIRE_BOARD_ID"
BoardIds ==
  {HOLOLINK_NANO_BOARD_ID, HOLOLINK_LITE_BOARD_ID,
   MICROCHIP_POLARFIRE_BOARD_ID, "HOLOLINK_100G_BOARD_ID", "0x7F", Missing}

NoController == [made |-> FALSE]

GpioBoard_default16(board_id) ==
  IF board_id = Missing THEN "bad_optional_access"
  ELSE IF board_id = MICROCHIP_POLARFIRE_BOARD_ID THEN "runtime_error"
  ELSE "none"

\* metadata.get<int64_t>("board_id").value() and the switch: the exception
\* thrown for this board id, if any
GpioBoard(board_id) ==
  IF board_id = Missing THEN "bad_optional_access"
  ELSE IF board_id \in {HOLOLINK_NANO_BOARD_ID, HOLOLINK_LITE_BOARD_ID}
    THEN "none"
  ELSE "runtime_error"

\* the switch: gpio_pin_number for the boards that have GPIO
GpioPinNumber(board_id) ==
  IF board_id = HOLOLINK_NANO_BOARD_ID THEN gpio_pin_number_ ELSE 16

\* Hololink::get_gpio: std::make_shared<Hololink::GPIO>(*this,
\* gpio_pin_number) is reached only past the switch
get_gpio(board_id) ==
  /\ Len(get_gpio_calls) < MaxGetGpio
  /\ get_gpio_calls' =
       Append(get_gpio_calls,
              [board_id |-> board_id, error |-> GpioBoard(board_id),
               r |-> IF GpioBoard(board_id) = "none"
                       THEN [pins |-> GpioPinNumber(board_id)]
                       ELSE NoController])
  /\ UNCHANGED <<core, rt, locks, lockfile, i2c, spi, gpio, control_socket_,
                 reset_controllers_, reset_run, framework, receiver>>

NextGetGpio == \E board_id \in BoardIds : get_gpio(board_id)

SpecGetGpio == Init /\ [][NextGetGpio]_vars

\* ------------------------------------------- datagrams from elsewhere
\* One thread reads DATA_REG while the control socket also receives
\* datagrams that are no reply of the device: datagrams of 1 to 4 bytes, too
\* short to hold cmd, flags, sequence and response code, and a full-size
\* datagram that carries a sequence number no request has used.
REPLY_HEADER_SIZE == 5
StrayLengths == {1, 4}
StraySequence == SeqMod - 1

ShortDatagram(bytes) == [bytes |-> bytes]

IsDatagram(r) == "bytes" \in DOMAIN r

\* deserializer->next_uint8(dummy) && next_uint8(dummy) &&
\* next_uint16_be(reply_sequence) && next_uint8(response_code)
Deserializes(bytes) == bytes >= REPLY_HEADER_SIZE

StrayReply ==
  [cmd |-> RD_DWORD, sequence |-> StraySequence, code |-> RESPONSE_SUCCESS,
   address |-> DATA_REG, value |-> 0, att |-> 0, ep |-> 0]

\* a datagram of some other sender reaches the control socket
StrayArrives(r) ==
  /\ rc[Caller].st = "locked"
  /\ r \notin replies
  /\ replies' = replies \cup {r}
  /\ UNCHANGED <<sequence_, execute_mutex_, requests, regs, op, rc, timeout,
                 attempts, resyncs>>

\* execute(): receive_control returned a datagram the deserializer cannot
\* take the reply header from: throw std::runtime_error("Unable to
\* deserialize"); the lock_guard is released and the public function
\* rethrows.
ReceiveShort(t, r) ==
  /\ rc[t].st = "locked"
  /\ r \in replies
  /\ IsDatagram(r)
  /\ ~Deserializes(r.bytes)
  /\ replies' = replies \ {r}
  /\ rc' = [rc EXCEPT ![t].st = "finished", ![t].got = r,
                      ![t].outcome = "DeserializeError",
                      ![t].reported =
                        add_retries(rc[t].count, "DeserializeError")]
  /\ execute_mutex_' = NoThread
  /\ UNCHANGED <<sequence_, requests, regs, op, timeout, attempts, resyncs>>

NextStray ==
  \/ CallRead(Caller, DATA_REG, MaxRetries) /\ UNCHANGED <<rt, locks, ext>>
  \/ CallWrite(Caller, DATA_REG, 1, FALSE, MaxRetries) /\ UNCHANGED <<rt, locks, ext>>
  \/ Attempt(Caller) /\ UNCHANGED <<rt, locks, ext>>
  \/ \E bytes \in StrayLengths :
       StrayArrives(ShortDatagram(bytes)) /\ UNCHANGED <<rt, locks, ext>>
  \/ StrayArrives(StrayReply) /\ UNCHANGED <<rt, locks, ext>>
  \/ \E r \in replies :
       ~IsDatagram(r) /\ Receive(Caller, r) /\ UNCHANGED <<rt, locks, ext>>
  \/ \E r \in replies : ReceiveShort(Caller, r) /\ UNCHANGED <<rt, locks, ext>>
  \/ ReceiveTimeout(Caller) /\ UNCHANGED <<rt, locks, ext>>
  \/ \E m \in requests : DeviceProcess(m) /\ UNCHANGED <<rt, locks, ext>>
  \/ Return(Caller) /\ UNCHANGED <<rt, locks, ext>>

SpecStray == Init /\ [][NextStray]_vars

\* ------------------------------------------------ calls and the deadline
\* One thread calls read_uint32 and write_uint32; the device answers or not,
\* answers requests of earlier attempts again and again, and other datagrams
\* arrive, a datagram of zero bytes among them. Time passes: the deadline of
\* a waiting attempt is reached (ReceiveTimeout) unless the thread is
\* blocked elsewhere. A call is begun while the attempts it may need are
\* within MaxAttempts.
EmptyDatagram == ShortDatagram(0)

\* do { received_bytes = recvfrom(...) } while (received_bytes <= 0): a
\* datagram of zero bytes was taken and recvfrom is called again, now
\* without select and its timeout
RecvfromEmpty(t, r) ==
  /\ rc[t].st = "locked"
  /\ r \in replies
  /\ r = EmptyDatagram
  /\ replies' = replies \ {r}
  /\ rc' = [rc EXCEPT ![t].st = "recvfrom"]
  /\ UNCHANGED <<sequence_, execute_mutex_, requests, regs, op, timeout,
                 attempts, resyncs>>

\* the blocked recvfrom has a datagram to return: the receive loop goes on
\* with it
RecvfromReturns(t) ==
  /\ rc[t].st = "recvfrom"
  /\ \E r \in replies : r # EmptyDatagram
  /\ rc' = [rc EXCEPT ![t].st = "locked"]
  /\ UNCHANGED <<sequence_, execute_mutex_, requests, replies, regs, op,
                 timeout, attempts, resyncs>>

HasBudget == attempts + MaxRetries < MaxAttempts

NextDeadline ==
  \/ HasBudget /\ CallRead(Caller, DATA_REG, MaxRetries) /\ UNCHANGED <<rt, locks, ext>>
  \/ \E retry \in BOOLEAN :
       HasBudget /\ CallWrite(Caller, DATA_REG, 1, retry, MaxRetries) /\ UNCHANGED <<rt, locks, ext>>
  \/ Attempt(Caller) /\ UNCHANGED <<rt, locks, ext>>
  \/ StrayArrives(StrayReply) /\ UNCHANGED <<rt, locks, ext>>
  \/ StrayArrives(EmptyDatagram) /\ UNCHANGED <<rt, locks, ext>>
  \/ \E r \in replies :
       ~IsDatagram(r) /\ Receive(Caller, r) /\ UNCHANGED <<rt, locks, ext>>
  \/ \E r \in replies : RecvfromEmpty(Caller, r) /\ UNCHANGED <<rt, locks, ext>>
  \/ RecvfromReturns(Caller) /\ UNCHANGED <<rt, locks, ext>>
  \/ ReceiveTimeout(Caller) /\ UNCHANGED <<rt, locks, ext>>
  \/ \E m \in requests : DeviceProcess(m) /\ UNCHANGED <<rt, locks, ext>>
  \/ Return(Caller) /\ UNCHANGED <<rt, locks, ext>>

\* The thread runs (an attempt that can be made is made, a datagram the
\* blocked recvfrom can return is returned) and the deadline is reached by
\* an attempt that passes the expired() test of receive_control again and
\* again; the device and the network owe nothing.
FairDeadline ==
  /\ WF_vars(Attempt(Caller) /\ UNCHANGED <<rt, locks, ext>>)
  /\ SF_vars(ReceiveTimeout(Caller) /\ UNCHANGED <<rt, locks, ext>>)
  /\ WF_vars(RecvfromReturns(Caller) /\ UNCHANGED <<rt, locks, ext>>)

SpecDeadline == Init /\ [][NextDeadline]_vars /\ FairDeadline

\* ------------------------------- spi_transaction, access by access
\* spi_transaction as the sequence of its register accesses. Every register
\* call returns a value or throws; the words the device returns are free.
reg_num_bytes_ == SPI_ADDRESS + 4
reg_spi_cfg_ == SPI_ADDRESS + 8
reg_num_bytes2_ == SPI_ADDRESS + 12

spi_cfg_ == 0
turnaround_cycles_ == 0

SpiCommandBytes == {<<>>, <<1>>, <<1, 7>>}
SpiDataBytes == {<<>>, <<12>>, <<2, 3, 4>>}
SpiBusReadCounts ==
  {U32(0, 0), U32(0, 1), U32(0, 5), U32(HalfMod - 1, HalfMod - 1)}
SpiControlValues == {0, SPI_BUSY}

\* what a range of iterators outside r can give: the process dies, or the
\* vector is built from memory that is not r
OutOfRange == {"crash", "garbage"}

write_bytes == spi.write_command_bytes \o spi.write_data_bytes

\* buffer_count of the running transaction; below buffer_size past the checks
BufferCount ==
  buffer_count(Len(spi.write_command_bytes), Len(spi.write_data_bytes),
               spi.read_byte_count).lo

start_byte_offset_unaligned(write_byte_count) == write_byte_count

\* start_byte_offset = write_byte_count; start_byte_offset &= ~3
start_byte_offset(write_byte_count) ==
  write_byte_count - (write_byte_count % 4)

\* num_bytes = (write_byte_count << 0) | (read_byte_count << 16), a uint32_t
spi_num_bytes(write_byte_count, read_byte_count) ==
  U32(read_byte_count.lo, write_byte_count)

\* num_bytes2 = turnaround_cycles_ | (write_command_count << 8)
spi_num_bytes2(write_command_count) ==
  turnaround_cycles_ + write_command_count * 256

HasBusy_never(value) == FALSE

\* value & SPI_BUSY
HasBusy(value) == BitAnd(value, SPI_BUSY) # 0

SpiBusFail(error) ==
  [spi EXCEPT !.pc = "failed", !.error = error, !.locked = FALSE]

SpiLogged(e) == Append(spi.log, e)

\* spi_transaction entered; the two size checks throw or let it go on
SpiBusCall(write_command_bytes, write_data_bytes, read_byte_count, n) ==
  /\ spi.pc = "idle"
  /\ LET valid == SpiSizesValid(Len(write_command_bytes),
                                Len(write_data_bytes), read_byte_count)
     IN spi' = [pc |-> IF valid THEN "lock" ELSE "failed",
                error |-> IF valid THEN "none" ELSE "runtime_error",
                write_command_bytes |-> write_command_bytes,
                write_data_bytes |-> write_data_bytes,
                read_byte_count |-> read_byte_count,
                locked |-> FALSE, index |-> 0, log |-> <<>>,
                r |-> <<>>, written |-> {}, result |-> <<>>,
                timeout |-> NewTimeout(n)]
  /\ SpiOthers /\ UNCHANGED core

\* std::lock_guard lock(spi_lock()); timeout = Timeout::spi_timeout(in_timeout)
SpiBusLock ==
  /\ spi.pc = "lock"
  /\ spi' = [spi EXCEPT !.pc = "busy_check", !.locked = TRUE]
  /\ SpiOthers /\ UNCHANGED core

\* value = read_uint32(reg_control_); assert((value & SPI_BUSY) == 0):
\* the assertion ends the process where assertions are compiled in and is
\* no statement at all where they are not
SpiBusBusyCheck(value, asserts) ==
  /\ spi.pc = "busy_check"
  /\ spi' = [spi EXCEPT
               !.pc = IF HasBusy(value) /\ asserts THEN "aborted" ELSE "cfg",
               !.log = SpiLogged(Rd(reg_control_, value))]
  /\ SpiOthers /\ UNCHANGED core

\* write_uint32(reg_spi_cfg_, spi_cfg_)
SpiBusCfg ==
  /\ spi.pc = "cfg"
  /\ spi' = [spi EXCEPT
               !.pc = IF 0 < Len(write_bytes) THEN "data" ELSE "num_bytes",
               !.index = 0,
               !.log = SpiLogged(Wr(reg_spi_cfg_, spi_cfg_))]
  /\ SpiOthers /\ UNCHANGED core

\* write_uint32(reg_data_buffer_ + index, value); index += 4
SpiBusWriteData ==
  /\ spi.pc = "data"
  /\ spi' = [spi EXCEPT
               !.pc = IF spi.index + 4 < Len(write_bytes) THEN "data"
                      ELSE "num_bytes",
               !.index = spi.index + 4,
               !.log = SpiLogged(Wr(reg_data_buffer_ + spi.index,
                                    PackWord(write_bytes, spi.index)))]
  /\ SpiOthers /\ UNCHANGED core

\* write_uint32(reg_num_bytes_, num_bytes)
SpiBusNumBytes ==
  /\ spi.pc = "num_bytes"
  /\ spi' = [spi EXCEPT
               !.pc = "num_bytes2",
               !.log = SpiLogged(Wr(reg_num_bytes_,
                                    spi_num_bytes(Len(write_bytes),
                                                  spi.read_byte_count)))]
  /\ SpiOthers /\ UNCHANGED core

\* write_uint32(reg_num_bytes2_, num_bytes2)
SpiBusNumBytes2 ==
  /\ spi.pc = "num_bytes2"
  /\ spi' = [spi EXCEPT
               !.pc = "start",
               !.log = SpiLogged(Wr(reg_num_bytes2_,
                           spi_num_bytes2(Len(spi.write_command_bytes))))]
  /\ SpiOthers /\ UNCHANGED core

\* status = write_uint32(reg_control_, SPI_START, timeout, false);
\* if (!status) throw std::runtime_error
SpiBusStart(status) ==
  /\ spi.pc = "start"
  /\ spi' = [(IF status THEN [spi EXCEPT !.pc = "poll"]
              ELSE SpiBusFail("runtime_error"))
               EXCEPT !.log = SpiLogged(Wr(reg_control_, SPI_START))]
  /\ SpiOthers /\ UNCHANGED core

\* std::vector<uint8_t> r(buffer_count + 3); the first word to read
SpiBusAfterPoll ==
  [spi EXCEPT
     !.pc = IF start_byte_offset(Len(write_bytes)) < BufferCount
              THEN "read" ELSE "slice",
     !.index = start_byte_offset(Len(write_bytes)),
     !.r = [k \in 1..(BufferCount + 3) |-> 0]]

\* value = read_uint32(reg_control_); leave the loop when BUSY is clear, else
\* timeout->retry() or TimeoutError
SpiBusPoll(value) ==
  /\ spi.pc = "poll"
  /\ spi' = [(IF ~HasBusy(value) THEN SpiBusAfterPoll
              ELSE IF Retry(spi.timeout)
                THEN [spi EXCEPT !.timeout.retries = spi.timeout.retries - 1]
              ELSE SpiBusFail("TimeoutError"))
               EXCEPT !.log = SpiLogged(Rd(reg_control_, value))]
  /\ SpiOthers /\ UNCHANGED core

\* r with r[i + 0 .. i + 3] (counted from 0) set to the bytes of the word
Stored(r, i, value) ==
  [k \in 1..Len(r) |->
     IF k - 1 \in i..(i + 3) THEN UnpackWord(value)[k - i] ELSE r[k]]

\* value = read_uint32(reg_data_buffer_ + i); r[i + 0..3] = bytes; i += 4
SpiBusRead(value) ==
  /\ spi.pc = "read"
  /\ spi' = [spi EXCEPT
               !.pc = IF spi.index + 4 < BufferCount THEN "read" ELSE "slice",
               !.index = spi.index + 4,
               !.r = Stored(spi.r, spi.index, value),
               !.written = spi.written \cup (spi.index..(spi.index + 3)),
               !.log = SpiLogged(Rd(reg_data_buffer_ + spi.index, value))]
  /\ SpiOthers /\ UNCHANGED core

\* the iterators r.cbegin() + write_byte_count and
\* r.cbegin() + write_byte_count + read_byte_count lie inside r
SliceInRange ==
  /\ spi.read_byte_count.hi = 0
  /\ Len(write_bytes) + spi.read_byte_count.lo <= Len(spi.r)

\* r = std::vector<uint8_t>(r.cbegin() + write_byte_count,
\*                          r.cbegin() + write_byte_count + read_byte_count)
SpiBusSlice(undefined) ==
  /\ spi.pc = "slice"
  /\ spi' = IF SliceInRange
              THEN [spi EXCEPT
                      !.pc = "done", !.locked = FALSE,
                      !.result = SubSeq(spi.r, Len(write_bytes) + 1,
                                        Len(write_bytes)
                                          + spi.read_byte_count.lo)]
            ELSE IF undefined = "crash"
              THEN [spi EXCEPT !.pc = "aborted"]
            ELSE [spi EXCEPT !.pc = "done", !.locked = FALSE,
                             !.result = <<"garbage">>]
  /\ SpiOthers /\ UNCHANGED core

SpiAccessing ==
  spi.pc \in {"busy_check", "cfg", "data", "num_bytes", "num_bytes2",
              "start", "poll", "read"}

\* a register call of the transaction throws
SpiBusThrow(error) ==
  /\ SpiAccessing
  /\ spi' = [SpiBusFail(error) EXCEPT
               !.log = SpiLogged([kind |-> "throw", reg |-> 0,
                                  value |-> 0])]
  /\ SpiOthers /\ UNCHANGED core

\* spi_transaction has returned or thrown; the next call can be made
SpiBusReturn ==
  /\ spi.pc \in {"done", "failed"}
  /\ "log" \in DOMAIN spi
  /\ spi' = SpiIdle
  /\ SpiOthers /\ UNCHANGED core

NextSpiBus ==
  \/ \E c \in SpiCommandBytes : \E d \in SpiDataBytes :
       \E n \in SpiBusReadCounts : SpiBusCall(c, d, n, MaxRetries)
  \/ SpiBusLock
  \/ \E v \in SpiControlValues : \E b \in BOOLEAN : SpiBusBusyCheck(v, b)
  \/ SpiBusCfg
  \/ SpiBusWriteData
  \/ SpiBusNumBytes
  \/ SpiBusNumBytes2
  \/ \E status \in BOOLEAN : SpiBusStart(status)
  \/ \E v \in SpiControlValues : SpiBusPoll(v)
  \/ \E v \in DataWords : SpiBusRead(v)
  \/ \E u \in OutOfRange : SpiBusSlice(u)
  \/ \E e \in {"TimeoutError", "runtime_error"} : SpiBusThrow(e)
  \/ SpiBusReturn

SpecSpiBus == Init /\ [][NextSpiBus]_vars

\* ------------------------------------------------- the order of the locks
\* Each public operation as the list of the locks it takes and gives back,
\* in the order of its lock_guards: the named lock of a bus or of the
\* device at the head of i2c_transaction, spi_transaction, and_uint32 and
\* or_uint32, and execute_mutex_ inside read_uint32_ / write_uint32_ for the
\* length of one exchange. The threads of a process share one session, and
\* with it one execute_mutex_.
ExecuteMutex == "execute_mutex_"

Lock(n) == [do |-> "lock", lock |-> n]
Unlock(n) == [do |-> "unlock", lock |-> n]

\* read_uint32 / write_uint32: lock_guard(execute_mutex_) around execute()
RegisterCall == <<Lock(ExecuteMutex), Unlock(ExecuteMutex)>>

\* lock_guard(spi_lock()); the register calls; return
SpiProgram ==
  <<Lock(SPI_LOCK)>> \o RegisterCall \o RegisterCall \o <<Unlock(SPI_LOCK)>>

Program_execute_first(kind) ==
  IF kind \in {"and_uint32", "or_uint32"}
    THEN <<Lock(ExecuteMutex), Lock(DEVICE_LOCK), Unlock(DEVICE_LOCK),
           Unlock(ExecuteMutex)>>
  ELSE RegisterCall

Program(kind) ==
  IF kind \in {"read_uint32", "write_uint32"} THEN RegisterCall
  ELSE IF kind \in {"and_uint32", "or_uint32"}
    THEN <<Lock(DEVICE_LOCK)>> \o RegisterCall \o RegisterCall
           \o <<Unlock(DEVICE_LOCK)>>
  ELSE IF kind = "i2c_transaction"
    THEN <<Lock(I2C_LOCK)>> \o RegisterCall \o RegisterCall
           \o <<Unlock(I2C_LOCK)>>
  ELSE IF kind = "spi_transaction" THEN SpiProgram
  ELSE \* reset(): spi_transaction, write, spi_transaction, write, the
       \* trigger write, get_fpga_version
       SpiProgram \o RegisterCall \o SpiProgram \o RegisterCall
         \o RegisterCall \o RegisterCall

OrderKinds ==
  {"read_uint32", "write_uint32", "and_uint32", "or_uint32",
   "i2c_transaction", "spi_transaction", "reset"}

Busy(w) == worker[w].op # "idle"

Held(w) ==
  IF Busy(w) THEN {worker[w].held[i] : i \in 1..Len(worker[w].held)} ELSE {}

\* std::mutex::lock returns when no thread of the process holds the mutex;
\* NamedLock::lock returns as lockf does
Grantable(w, n) ==
  IF n = ExecuteMutex
    THEN \A v \in Workers : ProcessOf(v) = ProcessOf(w) => n \notin Held(v)
  ELSE lockf_F_LOCK(ProcessOf(w), n)

\* the operation is entered
OrderCall(w, kind) ==
  /\ ~Busy(w)
  /\ worker' = [worker EXCEPT ![w] =
                  [op |-> kind, todo |-> Program(kind), held |-> <<>>]]
  /\ UNCHANGED <<lock_owner, rmw_log, regs>>
  /\ UnchangedSession

\* a lock_guard is constructed
OrderLock(w) ==
  /\ Busy(w)
  /\ Head(worker[w].todo).do = "lock"
  /\ LET n == Head(worker[w].todo).lock
     IN /\ Grantable(w, n)
        /\ lock_owner' = IF n = ExecuteMutex THEN lock_owner
                         ELSE [lock_owner EXCEPT ![n] = ProcessOf(w)]
        /\ worker' = [worker EXCEPT ![w].todo = Tail(@),
                                    ![w].held = Append(@, n)]
  /\ UNCHANGED <<rmw_log, regs>>
  /\ UnchangedSession

AllBut(held, n) == SelectSeq(held, LAMBDA x : x # n)

\* a lock_guard is destroyed; past the last one the operation returns
OrderUnlock(w) ==
  /\ Busy(w)
  /\ Head(worker[w].todo).do = "unlock"
  /\ LET n == Head(worker[w].todo).lock
     IN /\ lock_owner' = IF n = ExecuteMutex THEN lock_owner
                         ELSE lockf_F_ULOCK(ProcessOf(w), n)
        /\ worker' = [worker EXCEPT ![w] =
                        IF Tail(worker[w].todo) = <<>> THEN Idle
                        ELSE [worker[w] EXCEPT !.todo = Tail(@),
                                               !.held = AllBut(@, n)]]
  /\ UNCHANGED <<rmw_log, regs>>
  /\ UnchangedSession

\* an exception leaves the operation: every lock_guard on the way out is
\* destroyed
OrderThrow(w) ==
  /\ Busy(w)
  /\ worker[w].held # <<>>
  /\ lock_owner' = [n \in LockNames |->
                      IF n \in Held(w) /\ lock_owner[n] = ProcessOf(w)
                        THEN NoProcess ELSE lock_owner[n]]
  /\ worker' = [worker EXCEPT ![w] = Idle]
  /\ UNCHANGED <<rmw_log, regs>>
  /\ UnchangedSession

NextOrder ==
  \/ \E w \in Workers : \E k \in OrderKinds : OrderCall(w, k)
  \/ \E w \in Workers : OrderLock(w)
  \/ \E w \in Workers : OrderUnlock(w)
  \/ \E w \in Workers : OrderThrow(w)

SpecOrder == Init /\ [][NextOrder]_vars

\* ------------------------------------------------ GPIO calls of two threads
\* Two threads call set_direction and set_value, each on a pin of its own
\* in bank 0. The functions take no lock: between the read_uint32 and the
\* write_uint32 of one call the other thread's accesses can run.
PinOf(t) == IF t = "t1" THEN 0 ELSE 1
RacePins == {PinOf(t) : t \in Threads}
\* what a thread last asked of a pin, before it has asked anything: a value
\* that is neither a direction nor a level
NotSet == HIGH + GPIO_IN

GpioIdle == [pc |-> "idle"]

InitGpioRace ==
  gpio = [call |-> [t \in Threads |-> GpioIdle],
          direction |-> [b \in GpioBanks |-> {}],
          output |-> [b \in GpioBanks |-> {}],
          last_direction |-> [p \in RacePins |-> NotSet],
          last_value |-> [p \in RacePins |-> NotSet]]

InitRace ==
  /\ InitCore(1) /\ InitRt /\ InitLocks
  /\ InitLockfile /\ InitI2c /\ InitSpi /\ InitSocket /\ InitLife
  /\ InitReceiver
  /\ InitGpioRace

\* set_direction(pin, direction) / set_value(pin, value) entered with a
\* valid pin and a valid argument
RaceCall(t, fn, arg) ==
  /\ gpio.call[t] = GpioIdle
  /\ PinOf(t) < gpio_pin_number_
  /\ gpio' = [gpio EXCEPT !.call[t] =
                [pc |-> "read_direction", fn |-> fn, arg |-> arg,
                 reg_val |-> {}]]
  /\ GpioOthers

\* reg_val = read_uint32(direction register) in set_direction; get_direction
\* in set_value, which throws unless the pin is an output
RaceReadDirection(t) ==
  /\ gpio.call[t].pc = "read_direction"
  /\ LET c == gpio.call[t]
         reg_val == gpio.direction[Bank(PinOf(t))]
         bit == pin_bit(PinOf(t))
     IN gpio' = [gpio EXCEPT !.call[t] =
          IF c.fn = "set_value"
            THEN (IF IsOut(read_bit(reg_val, bit))
                    THEN [c EXCEPT !.pc = "read_status"]
                    ELSE GpioIdle)
          ELSE [c EXCEPT !.pc = "write",
                         !.reg_val = IF c.arg = GPIO_IN
                                       THEN set_bit(reg_val, bit)
                                     ELSE clear_bit(reg_val, bit)]]
  /\ GpioOthers

\* reg_val = read_uint32(status register) in set_value
RaceReadStatus(t, levels) ==
  /\ gpio.call[t].pc = "read_status"
  /\ levels \subseteq gpio.direction[Bank(PinOf(t))]
  /\ LET c == gpio.call[t]
         reg_val == (gpio.output[Bank(PinOf(t))]
                       \ gpio.direction[Bank(PinOf(t))]) \cup levels
         bit == pin_bit(PinOf(t))
     IN gpio' = [gpio EXCEPT !.call[t] =
          [c EXCEPT !.pc = "write",
                    !.reg_val = IF c.arg = HIGH THEN set_bit(reg_val, bit)
                                ELSE clear_bit(reg_val, bit)]]
  /\ GpioOthers

\* write_uint32(register_address, reg_val), and the call returns
RaceWrite(t) ==
  /\ gpio.call[t].pc = "write"
  /\ LET c == gpio.call[t]
         bank == Bank(PinOf(t))
     IN gpio' =
          IF c.fn = "set_direction"
            THEN [gpio EXCEPT !.call[t] = GpioIdle,
                              !.direction[bank] = c.reg_val,
                              !.last_direction[PinOf(t)] = c.arg]
          ELSE [gpio EXCEPT !.call[t] = GpioIdle,
                            !.output[bank] = c.reg_val,
                            !.last_value[PinOf(t)] = c.arg]
  /\ GpioOthers

\* the read_uint32 or write_uint32 the call is about to make throws
RaceThrow(t) ==
  /\ gpio.call[t] # GpioIdle
  /\ gpio' = [gpio EXCEPT !.call[t] = GpioIdle]
  /\ GpioOthers

NextGpioRace ==
  \/ \E t \in Threads : \E d \in {GPIO_IN, OUT} :
       RaceCall(t, "set_direction", d)
  \/ \E t \in Threads : \E v \in {HIGH, LOW} : RaceCall(t, "set_value", v)
  \/ \E t \in Threads : RaceReadDirection(t)
  \/ \E t \in Threads : \E levels \in SUBSET {0, 1} : RaceReadStatus(t, levels)
  \/ \E t \in Threads : RaceWrite(t)
  \/ \E t \in Threads : RaceThrow(t)

SpecGpioRace == InitRace /\ [][NextGpioRace]_vars

\* ------------------------------------------------------- ptp_synchronize
\* ptp_synchronize calls read_uint32_ itself, one attempt per turn of its
\* loop, each with a default Timeout of its own; the caller's Timeout is
\* asked only whether it has expired. Time passes on its own: the caller's
\* Timeout can be expired on entry and can expire at any later moment.
FPGA_PTP_SYNC_TS_0 == 384
PtpValues == {0, 1}

PtpAfter_expiry_first(c, expired) ==
  IF c.outcome \notin {"ok", "false"} THEN "error"
  ELSE IF expired THEN "false"
  ELSE IF c.outcome = "ok" /\ c.result # 0 THEN "true"
  ELSE "again"

\* what the loop does with the outcome of read_uint32_: an exception leaves
\* the function, a non-zero value breaks the loop, and otherwise the
\* caller's Timeout decides between false and another turn
PtpAfter(c, expired) ==
  IF c.outcome \notin {"ok", "false"} THEN "error"
  ELSE IF c.outcome = "ok" /\ c.result # 0 THEN "true"
  ELSE IF expired THEN "false"
  ELSE "again"

PtpCall(t, expired) ==
  /\ op[t] = "idle"
  /\ attempts < MaxAttempts
  /\ op' = [op EXCEPT ![t] = "ptp_synchronize"]
  /\ rc' = [rc EXCEPT ![t] = NewCall(RD_DWORD, FPGA_PTP_SYNC_TS_0, 0, TRUE)]
  /\ timeout' = [timeout EXCEPT ![t] = [retries |-> 0, expired |-> expired]]
  /\ UNCHANGED <<sequence_, execute_mutex_, requests, replies, regs,
                 attempts, resyncs>>

\* the device answers the read of the timestamp register: with the value it
\* has at that moment, or with an error code
PtpDeviceProcess(m, code, value) ==
  /\ m \in requests
  /\ replies' = replies \cup
       {[Reply(m) EXCEPT !.code = code,
                         !.value = IF code = RESPONSE_SUCCESS THEN value
                                   ELSE 0]}
  /\ UNCHANGED <<sequence_, execute_mutex_, requests, regs, op, rc, timeout,
                 attempts, resyncs>>

\* execute() found no reply before the deadline of read_timeout:
\* read_uint32_ returns { false, {} }
PtpNoReply(t) ==
  /\ op[t] = "ptp_synchronize"
  /\ rc[t].st = "locked"
  /\ execute_mutex_' = NoThread
  /\ rc' = [rc EXCEPT ![t].st = "finished", ![t].outcome = "false"]
  /\ UNCHANGED <<sequence_, requests, replies, regs, op, timeout, attempts,
                 resyncs>>

\* the caller's Timeout reaches its deadline
PtpExpire(t) ==
  /\ op[t] = "ptp_synchronize"
  /\ ~timeout[t].expired
  /\ timeout' = [timeout EXCEPT ![t].expired = TRUE]
  /\ UNCHANGED <<sequence_, execute_mutex_, requests, replies, regs, op, rc,
                 attempts, resyncs>>

\* read_uint32_ has returned or thrown: break, return false, sleep and go
\* round again, or let the exception through
PtpCheck(t) ==
  /\ op[t] = "ptp_synchronize"
  /\ rc[t].st = "finished"
  /\ LET next == PtpAfter(rc[t], timeout[t].expired)
     IN IF next = "again"
          THEN /\ rc' = [rc EXCEPT ![t] =
                           [NewCall(RD_DWORD, FPGA_PTP_SYNC_TS_0, 0, TRUE)
                              EXCEPT !.count = rc[t].count]]
               /\ UNCHANGED op
          ELSE /\ op' = [op EXCEPT ![t] = next]
               /\ UNCHANGED rc
  /\ UNCHANGED <<sequence_, execute_mutex_, requests, replies, regs, timeout,
                 attempts, resyncs>>

\* ptp_synchronize has returned or thrown; the next call can be made
PtpReturn(t) ==
  /\ op[t] \in {"true", "false", "error"}
  /\ op' = [op EXCEPT ![t] = "idle"]
  /\ rc' = [rc EXCEPT ![t] = NoCall]
  /\ UNCHANGED <<sequence_, execute_mutex_, requests, replies, regs, timeout,
                 attempts, resyncs>>

NextPtp ==
  \/ \E e \in BOOLEAN : PtpCall(Caller, e) /\ UNCHANGED <<rt, locks, ext>>
  \/ Attempt(Caller) /\ UNCHANGED <<rt, locks, ext>>
  \/ \E r \in replies : Receive(Caller, r) /\ UNCHANGED <<rt, locks, ext>>
  \/ PtpNoReply(Caller) /\ UNCHANGED <<rt, locks, ext>>
  \/ \E m \in requests :
       \E code \in {RESPONSE_SUCCESS, RESPONSE_INVALID_ADDR} :
         \E v \in PtpValues :
           PtpDeviceProcess(m, code, v) /\ UNCHANGED <<rt, locks, ext>>
  \/ PtpExpire(Caller) /\ UNCHANGED <<rt, locks, ext>>
  \/ PtpCheck(Caller) /\ UNCHANGED <<rt, locks, ext>>
  \/ PtpReturn(Caller) /\ UNCHANGED <<rt, locks, ext>>

SpecPtp == Init /\ [][NextPtp]_vars

\* ------------------------------------------------------- BaseReceiverOp
\* The application framework calls start(), then stop(), and may start the
\* operator again; it may call stop() after a start() that threw. The
\* receiver (start_receiver, stop_), the data channel (configure) and the
\* device (device_start, device_stop) are code behind virtual methods,
\* pointers and callbacks: each is taken to do what its name says when it
\* returns, and each may throw.
FrameMemories == {"unset", "zero", "given"}

start_sequence_device_first ==
  <<"allocate", "socket", "start_receiver", "device_start", "configure">>

\* the calls of start(), in the order of its statements
start_sequence ==
  <<"allocate", "socket", "start_receiver", "configure", "device_start">>

\* the calls of stop(), in the order of its statements
stop_sequence == <<"device_stop", "stop_", "release">>

IndexOf(seq, step) == CHOOSE i \in 1..Len(seq) : seq[i] = step

\* the statement after step, or "done" past the last one
Following(seq, step) ==
  IF IndexOf(seq, step) = Len(seq) THEN "done"
  ELSE seq[IndexOf(seq, step) + 1]

ReceiverOthers ==
  UNCHANGED <<core, rt, locks, lockfile, i2c, spi, gpio, control_socket_,
              life>>

\* a step of start() or stop() that returned: the next statement, or the
\* end of the function
StepReturned(r, seq, step, running) ==
  [r EXCEPT !.pc = IF Following(seq, step) = "done" THEN running
                   ELSE Following(seq, step),
            !.trace = Append(@, [call |-> step, threw |-> FALSE])]

\* a step that threw: the function is left at once
StepThrew(r, step, left) ==
  [r EXCEPT !.pc = left,
            !.trace = Append(@, [call |-> step, threw |-> TRUE])]

\* the framework calls start()
ReceiverStart(memory) ==
  /\ receiver.pc \in {"idle", "stopped"}
  /\ receiver.starts < MaxStarts
  /\ receiver' = [receiver EXCEPT !.pc = start_sequence[1],
                                  !.starts = @ + 1,
                                  !.user_frame_memory_ = memory,
                                  !.trace = Append(@, [call |-> "start", threw |-> FALSE])]
  /\ ReceiverOthers

\* frame_memory_ is the caller's, or allocate(frame_size_)
StartAllocate(ok) ==
  /\ receiver.pc = "allocate"
  /\ receiver' =
       IF receiver.user_frame_memory_ = "given"
         THEN StepReturned(receiver, start_sequence, "allocate", "started")
       ELSE IF ok
         THEN [StepReturned(receiver, start_sequence, "allocate", "started")
                 EXCEPT !.deviceptr_ = TRUE]
       ELSE StepThrew(receiver, "allocate", "failed")
  /\ ReceiverOthers

\* data_socket_.reset(socket(...)); no descriptor throws
StartSocket(ok) ==
  /\ receiver.pc = "socket"
  /\ receiver' =
       IF ok
         THEN [StepReturned(receiver, start_sequence, "socket", "started")
                 EXCEPT !.sockets = @ + 1, !.data_socket_ = receiver.sockets + 1]
         ELSE [StepThrew(receiver, "socket", "failed") EXCEPT !.data_socket_ = 0]
  /\ ReceiverOthers

\* start_receiver()
StartReceiver(ok) ==
  /\ receiver.pc = "start_receiver"
  /\ receiver' =
       IF ok
         THEN [StepReturned(receiver, start_sequence, "start_receiver", "started")
                 EXCEPT !.receiving = TRUE]
         ELSE StepThrew(receiver, "start_receiver", "failed")
  /\ ReceiverOthers

\* local_ip_and_port() and hololink_channel_->configure(...): the data
\* channel is told the port of the data socket
StartConfigure(ok) ==
  /\ receiver.pc = "configure"
  /\ receiver' =
       IF ok
         THEN [StepReturned(receiver, start_sequence, "configure", "started")
                 EXCEPT !.configured = receiver.data_socket_]
         ELSE StepThrew(receiver, "configure", "failed")
  /\ ReceiverOthers

\* device_start_.get()(): a callback that throws may or may not have
\* started the device
StartDevice(ok, device) ==
  /\ receiver.pc = "device_start"
  /\ receiver' =
       IF ok
         THEN [StepReturned(receiver, start_sequence, "device_start", "started")
                 EXCEPT !.device = TRUE]
         ELSE [StepThrew(receiver, "device_start", "failed")
                 EXCEPT !.device = device]
  /\ ReceiverOthers

\* the framework calls stop()
ReceiverStop ==
  /\ receiver.pc \in {"started", "failed"}
  /\ receiver' = [receiver EXCEPT !.pc = stop_sequence[1],
                                  !.trace = Append(@, [call |-> "stop", threw |-> FALSE])]
  /\ ReceiverOthers

\* device_stop_.get()(): a callback that throws may or may not have
\* stopped the device
StopDevice(ok, device) ==
  /\ receiver.pc = "device_stop"
  /\ receiver' =
       IF ok
         THEN [StepReturned(receiver, stop_sequence, "device_stop", "stopped")
                 EXCEPT !.device = FALSE]
         ELSE [StepThrew(receiver, "device_stop", "dead")
                 EXCEPT !.device = receiver.device /\ device]
  /\ ReceiverOthers

\* stop_()
StopReceiver(ok) ==
  /\ receiver.pc = "stop_"
  /\ receiver' =
       IF ok
         THEN [StepReturned(receiver, stop_sequence, "stop_", "stopped")
                 EXCEPT !.receiving = FALSE]
         ELSE StepThrew(receiver, "stop_", "dead")
  /\ ReceiverOthers

\* the memory is released only if the parameter has no value
StopRelease ==
  /\ receiver.pc = "release"
  /\ receiver' =
       [StepReturned(receiver, stop_sequence, "release", "stopped")
          EXCEPT !.deviceptr_ =
                   IF receiver.user_frame_memory_ = "unset" THEN FALSE
                   ELSE @]
  /\ ReceiverOthers

NextReceiver ==
  \/ \E memory \in FrameMemories : ReceiverStart(memory)
  \/ \E ok \in BOOLEAN : StartAllocate(ok)
  \/ \E ok \in BOOLEAN : StartSocket(ok)
  \/ \E ok \in BOOLEAN : StartReceiver(ok)
  \/ \E ok \in BOOLEAN : StartConfigure(ok)
  \/ \E ok, device \in BOOLEAN : StartDevice(ok, device)
  \/ ReceiverStop
  \/ \E ok, device \in BOOLEAN : StopDevice(ok, device)
  \/ \E ok \in BOOLEAN : StopReceiver(ok)
  \/ StopRelease

SpecReceiver == Init /\ [][NextReceiver]_vars

\* ------------------------------------------------------- the lock files
\* i2c_lock(), spi_lock() and lock() each keep a function-local static
\* NamedLock: it is constructed by the first call made in the process, from
\* the Hololink object that made that call, and every later call in the
\* process, from whatever Hololink object, gets that same NamedLock.
device_specific_filename(serial_number_, name) == <<"hololink", serial_number_, name>>

\* a thread of process p calls i2c_lock(), spi_lock() or lock() (name n) on
\* the Hololink object of the device with serial number d
NamedLock_static(p, d, n) ==
  /\ lockfile' =
       [static |-> IF lockfile.static[p][n] = NotConstructed
                     THEN [lockfile.static EXCEPT ![p][n] =
                             device_specific_filename(d, n)]
                     ELSE lockfile.static,
        use |-> [valid |-> TRUE, process |-> p, serial |-> d, name |-> n,
                 file |-> IF lockfile.static[p][n] = NotConstructed
                            THEN device_specific_filename(d, n)
                            ELSE lockfile.static[p][n]]]
  /\ UNCHANGED <<core, rt, locks, i2c, spi, gpio, control_socket_, life,
            receiver>>

NextLockfile ==
  \E p \in Processes : \E d \in Devices : \E n \in LockNames :
    NamedLock_static(p, d, n)

SpecLockfile == Init /\ [][NextLockfile]_vars

\* ---------------------------------------------------------------- claims

InExchange(t) == rc[t].st = "locked"
Finished(t) == rc[t].st = "finished"
Accepted(t) == rc[t].st = "finished" /\ rc[t].got # NoReply

\* C1: at most one thread at a time is between taking a sequence number and
\* the end of execute; no request is sent while another exchange of the
\* session is in progress.
C1_OneExchangeAtATime ==
  /\ Cardinality({t \in Threads : InExchange(t)}) <= 1
  /\ \A t \in Threads : InExchange(t) <=> execute_mutex_ = t

\* C1 witness: one thread is inside its exchange while the other has entered
\* an attempt and is kept waiting.
C1_Witness ==
  \E t, u \in Threads :
    /\ t # u /\ InExchange(t)
    /\ rc[u].st = "loop" /\ Aligned(rc[u].address)

\* C2: execute reports success only for a reply whose sequence equals the
\* outstanding request's, and the response code and the value handed to the
\* caller are those of that reply.
C2_OnlyMatchingReplyAccepted ==
  \A t \in Threads :
    /\ Finished(t) /\ rc[t].outcome \in {"ok", "ProtocolError", "DeserializeError"}
         => Accepted(t)
    /\ Accepted(t) =>
         /\ rc[t].got.sequence = rc[t].sequence
         /\ rc[t].code = rc[t].got.code
         /\ (rc[t].outcome = "ok" /\ rc[t].cmd = RD_DWORD
               => rc[t].result = rc[t].got.value)

\* C2 witness: a call dropped a reply of another sequence number, went on
\* waiting, and then returned the value of the matching reply.
C2_Witness ==
  \E t \in Threads :
    /\ Accepted(t) /\ rc[t].skipped /\ rc[t].outcome = "ok"
    /\ rc[t].cmd = RD_DWORD /\ rc[t].result = 1

\* C3 as stated: the reply a call accepts was generated for the attempt that
\* is outstanding, never for an earlier attempt, also after reset().
C3_Original_NoStaleReplyEver ==
  \A t \in Threads : Accepted(t) => rc[t].got.att = rc[t].att

\* C3 amended: a reply generated for an earlier attempt is accepted by a later
\* attempt only if reset() set the counter back to 1 between the two
\* attempts or 65536 or more requests were sent from the one to the other.
C3_NoStaleReplyWithinOneCycle ==
  \A t \in Threads :
    Accepted(t) /\ rc[t].got.att # rc[t].att =>
      \/ rc[t].got.ep # rc[t].seqs[Len(rc[t].seqs)][2]
      \/ rc[t].att - rc[t].got.att >= SeqMod

\* C3 witness: a retried call dropped a stale reply and accepted the reply
\* generated for its second attempt.
C3_Witness ==
  \E t \in Threads :
    /\ Accepted(t) /\ rc[t].skipped /\ Len(rc[t].seqs) = 2
    /\ rc[t].got.att = rc[t].att

DistinctSeqs(c) ==
  \A i, j \in 1..Len(c.seqs) : i # j => c.seqs[i][1] # c.seqs[j][1]

DistinctSeqsPerEpoch(c) ==
  \A i, j \in 1..Len(c.seqs) :
    i # j /\ c.seqs[i][2] = c.seqs[j][2] => c.seqs[i][1] # c.seqs[j][1]

Retrying(c) == c.cmd = RD_DWORD \/ c.retry

SentAs(n) == CHOOSE m \in requests : m.att = n

ReadReturned == op[Caller] = "read" /\ Finished(Caller) /\ rc[Caller].outcome = "ok"

InSection(w, kind) ==
  worker[w].op = kind /\ worker[w].pc \notin {"lock"}

\* the transaction has made its first register access and has more to make
MidTransaction(w, kind) ==
  /\ worker[w].op = kind
  /\ \E i \in 2..Len(BusPhases) : worker[w].pc = BusPhases[i]

RECURSIVE ApplyAll(_, _)
ApplyAll(calls, value) ==
  IF calls = <<>> THEN value
  ELSE ApplyAll(Tail(calls), Modify(Head(calls).kind, value, Head(calls).mask))

Orders(n) ==
  {p \in [1..n -> 1..n] : \A i, j \in 1..n : i # j => p[i] # p[j]}

SerialResults(calls, value) ==
  {ApplyAll([i \in 1..Len(calls) |-> calls[p[i]]], value) :
     p \in Orders(Len(calls))}

RmwQuiescent ==
  \A w \in Workers : worker[w].op \notin {"and_uint32", "or_uint32"}

\* C8: and_uint32 and or_uint32 are atomic read-modify-writes: once the calls
\* made by the threads of one process and by other processes have returned,
\* the register holds the result of applying them one after another in some
\* order.
C8_AtomicReadModifyWrite ==
  RmwQuiescent => regs[DATA_REG] \in SerialResults(rmw_log, InitRegs[DATA_REG])

\* C9: the register accesses of i2c_transaction calls running in two
\* different processes never interleave: no two threads of different
\* processes are in the middle of their transactions at once.
C9_ProcessesNeverInterleave ==
  \A w, u \in Workers :
    ProcessOf(w) # ProcessOf(u) =>
      ~(MidTransaction(w, "i2c_transaction")
          /\ MidTransaction(u, "i2c_transaction"))

\* C10: of two threads of one process running bus transactions of the same
\* type, at most one is inside the locked section, and the lock stays held
\* for the whole of a transaction.
C10_ThreadsExcluded ==
  \A k \in {"i2c_transaction", "spi_transaction"} :
    /\ \A w, u \in Workers :
         w # u /\ ProcessOf(w) = ProcessOf(u) =>
           ~(InSection(w, k) /\ InSection(u, k))
    /\ \A w \in Workers :
         InSection(w, k) => lock_owner[LockOf(k)] = ProcessOf(w)

\* C11: the lock file behind a locked operation on a device is the one under
\* that device's own serial number, whatever process issues the operation
\* and whatever other devices that process used before.
C11_LockFileOfOwnSerial ==
  lockfile.use.valid =>
    lockfile.use.file =
      device_specific_filename(lockfile.use.serial, lockfile.use.name)

Waiting(w) == worker[w].op \notin {"idle", "dead"} /\ worker[w].pc = "lock"

C13_BusyStopsTransaction ==
  i2c.pc # "idle" /\ Len(i2c.log) >= 1 /\ i2c.log[1].kind = "read" =>
    /\ i2c.log[1].reg = "reg_control_"
    /\ (I2C_BUSY \in i2c.log[1].value =>
          /\ Len(i2c.log) = 1
          /\ i2c.pc = "failed" /\ i2c.error = "runtime_error"
          /\ ~i2c.locked)

\* C13 witness: the transaction failed on a BUSY control register after
\* one read.
C13_Witness ==
  /\ i2c.pc = "failed" /\ i2c.error = "runtime_error"
  /\ i2c.log = <<Rd("reg_control_", {I2C_BUSY, I2C_DONE})>>

\* C14: a write_uint32 called with retry = false that gets no reply before
\* the timeout has sent exactly one request datagram and returns false; it
\* raises no TimeoutError, whatever the Timeout policy would allow.
C14_NoAckWriteReturnsFalse ==
  \A t \in Threads :
    rc[t].st # "none" /\ rc[t].cmd = WR_DWORD /\ ~rc[t].retry =>
      /\ Len(rc[t].seqs) <= 1 /\ rc[t].count <= 1
      /\ rc[t].outcome # "TimeoutError"
      /\ (Finished(t) /\ ~Accepted(t) =>
            /\ rc[t].outcome = "false"
            /\ rc[t].count = 1 /\ Len(rc[t].seqs) = 1
            /\ Cardinality({m \in requests : m.att = rc[t].att}) = 1)

\* C14 witness: the reset trigger write got no reply and returned false
\* after one request, with a retry left in its Timeout policy.
C14_Witness ==
  \E t \in Threads :
    /\ op[t] = "reset_trigger" /\ Finished(t) /\ rc[t].outcome = "false"
    /\ ~rc[t].retry /\ Retry(timeout[t]) /\ Len(rc[t].seqs) = 1

StartRequests ==
  {m \in requests : /\ m.cmd = WR_DWORD /\ m.address = reg_control_
                    /\ m.value = SPI_START}

\* C15: one spi_transaction call sends the START write at most once; when
\* START is not acknowledged before the timeout the transaction fails with
\* an error and START is not sent again.
C15_StartSentAtMostOnce ==
  /\ spi.pc # "idle" =>
       Cardinality({m \in StartRequests : m.att > spi.base}) <= 1
  /\ spi.pc = "start_wait" /\ Finished(Caller) /\ ~Accepted(Caller) =>
       rc[Caller].outcome = "false" /\ Len(rc[Caller].seqs) = 1
  /\ spi.pc \notin {"idle", "setup", "start", "start_wait", "failed"} =>
       \E m \in StartRequests : m.att > spi.base

\* C15 witness: the START write got no acknowledgement although its Timeout
\* policy had a retry left, and the transaction failed after one START
\* request.
C15_Witness ==
  /\ spi.pc = "failed" /\ spi.error = "runtime_error"
  /\ Retry(timeout[Caller])
  /\ Cardinality({m \in StartRequests : m.att > spi.base}) = 1
  /\ \A r \in replies : r.att <= spi.base

\* C16: read_uint32 and write_uint32 with an address that is not a multiple
\* of 4 fail with InvalidArgument before any datagram is sent: no request
\* carries such an address, the call takes no sequence number and never
\* holds the execute mutex.
C16_MisalignedAddressRejected ==
  /\ \A m \in requests : m.address % 4 = 0
  /\ \A t \in Threads :
       rc[t].st # "none" /\ rc[t].address % 4 # 0 =>
         /\ rc[t].seqs = <<>> /\ rc[t].att = 0
         /\ execute_mutex_ # t
         /\ rc[t].st \in {"loop", "finished"}
         /\ (Finished(t) =>
               rc[t].outcome = "InvalidArgument" /\ rc[t].count = 1)

\* C16 witness: after one request on the wire a write to address 6 failed
\* with InvalidArgument; the counter still stands right after that request.
C16_Witness ==
  /\ op[Caller] = "write" /\ Finished(Caller) /\ rc[Caller].address = 6
  /\ rc[Caller].outcome = "InvalidArgument"
  /\ attempts = 1 /\ sequence_ = 2 /\ execute_mutex_ = NoThread

\* len(command_bytes) + len(data_bytes) + read_byte_count, not wrapped
TotalAtLeast(c, n) ==
  \/ c.read_byte_count.hi > 0
  \/ c.read_byte_count.lo + c.write_command_count + c.write_data_count >= n

\* C17: spi_transaction with a total of command, data and read bytes of 288
\* or more fails before the SPI lock is taken and before any register
\* access; with a total below 288 and fewer than 16 command bytes the size
\* checks do not fail.
C17_SizeLimitChecked ==
  spi.pc # "idle" =>
    /\ TotalAtLeast(spi, SPI_BUFFER_SIZE) =>
         spi.pc = "failed" /\ spi.error = "runtime_error" /\ ~spi.locked
    /\ ~TotalAtLeast(spi, SPI_BUFFER_SIZE)
         /\ spi.write_command_count < SPI_COMMAND_LIMIT => spi.pc # "failed"

GpioWrites == {i \in 1..Len(gpio.log) : gpio.log[i][1] = "write"}

\* C18: set_value on a valid pin whose direction bit reads as input fails
\* after the direction read alone; set_value writes the output register
\* only when the direction read showed OUT and the value is HIGH or LOW.
C18_SetValueNeedsOutputPin ==
  gpio.pc # "idle" /\ gpio.fn = "set_value" /\ Len(gpio.log) >= 1 =>
    /\ gpio.log[1][1] = "read" /\ gpio.log[1][2] = "GPIO_DIRECTION"
    /\ (read_bit(gpio.log[1][4], pin_bit(gpio.pin)) # OUT =>
          /\ Len(gpio.log) = 1
          /\ gpio.pc = "failed" /\ gpio.error = "runtime_error")
    /\ \A i \in GpioWrites :
         /\ gpio.log[i][2] = "GPIO_OUTPUT"
         /\ read_bit(gpio.log[1][4], pin_bit(gpio.pin)) = OUT
         /\ gpio.arg \in {HIGH, LOW}

\* C18 witness: set_value(33, HIGH) on a pin set to input failed after the
\* direction read, and the output register is as it was.
C18_Witness ==
  /\ gpio.pc = "failed" /\ gpio.fn = "set_value" /\ gpio.pin = 33
  /\ gpio.arg = HIGH /\ gpio.error = "runtime_error"
  /\ gpio.log = <<<<"read", "GPIO_DIRECTION", 1, {1}>>>>
  /\ gpio.output[1] = {}

\* C19: while the session is stopped, a read_uint32 or write_uint32 call
\* sends no request datagram and returns no value: it ends with an error,
\* the send failure for every word-aligned address. After start() calls
\* are sent again.
C19_StoppedSessionSendsNothing ==
  control_socket_ = NoSocket /\ op[Caller] \in {"read", "write"} =>
    /\ rc[Caller].st \in {"loop", "finished"}
    /\ rc[Caller].att = 0
    /\ rc[Caller].seqs = <<>>
    /\ rc[Caller].st = "finished" =>
         /\ rc[Caller].result = 0
         /\ rc[Caller].outcome =
              IF Aligned(rc[Caller].address) THEN "NotConnected"
              ELSE "InvalidArgument"

\* C19 witness: a read of DATA_REG made after stop() failed with the send
\* error, though requests had been sent before stop().
C19_Witness ==
  /\ control_socket_ = NoSocket /\ op[Caller] = "read"
  /\ rc[Caller].address = DATA_REG /\ rc[Caller].st = "finished"
  /\ rc[Caller].outcome = "NotConnected" /\ rc[Caller].att = 0
  /\ attempts > 0

\* reset() past its version read: get_fpga_version returned, what is left is
\* the loop over the reset listeners.
ResetCompleted(t) ==
  op[t] = "reset_version" /\ rc[t].st = "finished" /\ rc[t].outcome = "ok"

\* the requests sent since the counter was last set to 1
SentSinceResync == {m \in requests : m.ep = resyncs}

TraceAt(step) ==
  {i \in 1..Len(reset_run.trace) : reset_run.trace[i][1] = step}

Prefix(a, b) == Len(a) <= Len(b) /\ \A i \in 1..Len(a) : a[i] = b[i]

\* C21: a reset() that completed invoked the registered listeners once per
\* registration, in registration order; a listener is invoked only after
\* the version read of this reset() returned; a reset() that failed before
\* the listener loop invoked none.
C21_ListenersNotifiedInOrder ==
  /\ reset_run.pc = "done" => reset_run.notified = reset_controllers_
  /\ Prefix(reset_run.notified, reset_controllers_)
  /\ \A i \in TraceAt("reset_controllers") :
       \E j \in TraceAt("get_fpga_version") : j < i /\ reset_run.trace[j][2]
  /\ (reset_run.pc = "failed" /\ TraceAt("reset_controllers") = {}) =>
       reset_run.notified = <<>>

\* C21 witness: reset() completed with listener b registered before a, and
\* invoked b, then a.
C21_Witness ==
  /\ reset_run.pc = "done"
  /\ reset_controllers_ = <<"b", "a">>
  /\ reset_run.notified = <<"b", "a">>

\* the calls of from_enumeration_metadata that returned a session
Returned ==
  {i \in 1..Len(framework_calls) :
     /\ framework_calls[i].fn = "from_enumeration_metadata"
     /\ framework_calls[i].error = "none"}

NoResetBetween(i, j) ==
  \A k \in i..j : framework_calls[k].fn # "reset_framework"

\* the registry as call i left it
RegistryAfter(i) ==
  IF i = Len(framework_calls) THEN hololink_by_serial_number
  ELSE framework_calls[i + 1].before

\* C22: with no reset_framework in between, two calls with the same serial
\* number return the same session, built from the metadata of the first of
\* them that found none registered; calls with different serial numbers
\* return different sessions; a call that fails for a missing peer_ip or
\* control_port leaves the registry as it was.
C22_OneSessionPerSerial ==
  /\ \A i \in Returned : \A j \in Returned :
       i < j /\ NoResetBetween(i, j) =>
         LET a == framework_calls[i]
             b == framework_calls[j]
         IN IF a.metadata.serial_number = b.metadata.serial_number
              THEN /\ a.r = b.r
                   /\ ~Registered(a.before, a.metadata.serial_number) =>
                        /\ b.r.peer_ip = a.metadata.peer_ip
                        /\ b.r.control_port = a.metadata.control_port
              ELSE a.r.id # b.r.id
  /\ \A i \in 1..Len(framework_calls) :
       /\ framework_calls[i].fn = "from_enumeration_metadata"
       /\ framework_calls[i].error \in {"no peer_ip", "no control_port"}
       => RegistryAfter(i) = framework_calls[i].before

\* C22 witness: serial-A was seen with one peer_ip, then with another, and
\* both calls returned the session built from the first; a call for serial-B
\* without control_port failed in between.
C22_Witness ==
  /\ Len(framework_calls) = 3
  /\ framework_calls[1].metadata =
       [serial_number |-> "serial-A", peer_ip |-> "192.168.0.2",
        control_port |-> "8192"]
  /\ framework_calls[2].fn = "from_enumeration_metadata"
  /\ framework_calls[2].metadata.serial_number = "serial-B"
  /\ framework_calls[2].error = "no control_port"
  /\ framework_calls[3].fn = "from_enumeration_metadata"
  /\ framework_calls[3].metadata =
       [serial_number |-> "serial-A", peer_ip |-> "192.168.0.3",
        control_port |-> "8192"]
  /\ framework_calls[3].r = framework_calls[1].r
  /\ framework_calls[3].r.peer_ip = "192.168.0.2"

\* the request of the attempt the call of thread t is waiting on
Outstanding(t) == {m \in requests : m.att = rc[t].att}

IsExtended(tmo) == "timeout_s" \in DOMAIN tmo

\* C23 as stated: both reads of start() use the extended timeout and
\* neither request carries SEQUENCE_CHECK.
C23_Original_BothReadsUnchecked ==
  \A t \in Threads :
    op[t] \in {"start_version", "start_date"} /\ rc[t].st = "locked" =>
      /\ IsExtended(timeout[t])
      /\ \A m \in Outstanding(t) : REQUEST_FLAGS_SEQUENCE_CHECK \notin m.flags

\* C23: the version read of start() uses the extended timeout and its
\* requests do not carry SEQUENCE_CHECK; the datecode read that follows uses
\* the default timeout, not the extended one, and the sequence-check
\* setting of a read_uint32 call made with the address alone.
C23_VersionReadUnchecked ==
  \A t \in Threads :
    /\ op[t] = "start_version" /\ rc[t].st = "locked" =>
         /\ timeout[t].timeout_s = 30
         /\ \A m \in Outstanding(t) :
              /\ m.address = FPGA_VERSION
              /\ m.flags = {REQUEST_FLAGS_ACK_REQUEST}
    /\ op[t] = "start_date" /\ rc[t].st = "locked" =>
         /\ ~IsExtended(timeout[t])
         /\ \A m \in Outstanding(t) :
              /\ m.address = FPGA_DATE
              /\ m.flags =
                   RequestFlags(NewCall(RD_DWORD, FPGA_DATE, 0, TRUE).sequence_check)

\* C23 witness: start() has sent its datecode read after the version read
\* returned, and both requests are on record.
C23_Witness ==
  /\ op[Caller] = "start_date" /\ rc[Caller].st = "locked"
  /\ \E m \in requests :
       m.address = FPGA_VERSION /\ m.flags = {REQUEST_FLAGS_ACK_REQUEST}
  /\ \E m \in Outstanding(Caller) : m.address = FPGA_DATE

C25_OnlyMatchOrDeadlineEndsWait ==
  \A t \in Threads :
    rc[t].st = "finished" /\ rc[t].att > 0 =>
      \/ /\ rc[t].got # NoReply
         /\ ~IsDatagram(rc[t].got)
         /\ rc[t].got.sequence = rc[t].sequence
      \/ /\ rc[t].got = NoReply
         /\ rc[t].outcome \in {"false", "TimeoutError"}

InCall(t) == rc[t].st \in {"loop", "locked", "recvfrom"}

\* C26: every read_uint32 and write_uint32 call ends, with a result or an
\* exception, whatever datagrams the device sends or does not send.
C26_CallsTerminate ==
  \A t \in Threads : InCall(t) ~> rc[t].st = "finished"

\* C27: the first request of reset()'s version read carries sequence
\* number 1, whatever other threads do on the session meanwhile.
C27_VersionReadCarriesOne ==
  \A t \in Threads :
    op[t] = "reset_version" /\ rc[t].seqs # <<>> => rc[t].seqs[1][1] = 1

\* every occurrence of step b in the trace follows one of step a that
\* returned (or, for the trigger write, returned or threw)
Precedes(a, b) ==
  \A i \in TraceAt(b) :
    \E j \in TraceAt(a) :
      j < i /\ (reset_run.trace[j][2] \/ a = "reset_trigger")

LastStep == reset_run.trace[Len(reset_run.trace)]

\* C28: reset() runs the SPI sequence with its register writes, the reset
\* trigger write (whose failure is ignored), the wait for re-enumeration,
\* the ARP seeding, the resynchronisation of the counter, the version read
\* and the listener notification, in this order; a failed re-enumeration
\* ends reset() with an error before the counter is touched or a listener
\* is invoked.
C28_ResetStepOrder ==
  /\ Precedes("spi_transaction_0C", "write_0x8_0")
  /\ Precedes("write_0x8_0", "spi_transaction_0F")
  /\ Precedes("spi_transaction_0F", "write_0x8_3")
  /\ Precedes("write_0x8_3", "reset_trigger")
  /\ Precedes("reset_trigger", "find_channel")
  /\ Precedes("find_channel", "arp_set")
  /\ Precedes("arp_set", "sequence_1")
  /\ Precedes("sequence_1", "get_fpga_version")
  /\ Precedes("get_fpga_version", "reset_controllers")
  /\ \A step \in RegisterSteps \cup {"find_channel", "arp_set", "sequence_1"} :
       Cardinality(TraceAt(step)) <= 1
  /\ (reset_run.pc = "failed" => LastStep[1] # "reset_trigger")
  /\ (reset_run.trace # <<>> /\ LastStep = <<"reset_trigger", FALSE>> =>
        reset_run.pc = "find_channel")
  /\ (<<"find_channel", FALSE>> \in {reset_run.trace[i] :
                                       i \in 1..Len(reset_run.trace)} =>
        /\ reset_run.pc = "failed"
        /\ LastStep[1] = "find_channel"
        /\ reset_run.notified = <<>>)

\* C28 witness: a reset() whose trigger write threw went on through
\* re-enumeration, resynchronisation and version read and notified its
\* listener.
C28_Witness ==
  /\ reset_run.pc = "done"
  /\ reset_run.notified = <<"a">>
  /\ reset_run.trace[6] = <<"reset_trigger", FALSE>>
  /\ Len(reset_run.trace) = 11
  /\ sequence_ = 2

\* the register accesses of the transaction in progress, exceptions of
\* register calls left out
Accesses == SelectSeq(i2c.log, LAMBDA e : e.kind # "throw")

PayloadWords == (Len(i2c.write_bytes) + 3) \div 4

IsStart(e) ==
  /\ e.kind = "write" /\ e.reg = "reg_control_"
  /\ I2C_START \in e.value[2]

IsControlRead(e) == e.kind = "read" /\ e.reg = "reg_control_"

IsDataRead(e) == e.kind = "read" /\ e.reg # "reg_control_"

Starts == {i \in 1..Len(Accesses) : IsStart(Accesses[i])}

FirstStart == CHOOSE i \in Starts : \A j \in Starts : i <= j

\* the control reads after the first START that ended neither loop and were
\* granted a retry: a read in the START loop (it follows a START write)
\* answered by another START, or a read in the poll loop (it follows a
\* read) answered by another read
RetriesGranted ==
  {i \in (FirstStart + 1)..(Len(Accesses) - 1) :
     /\ IsControlRead(Accesses[i])
     /\ I2C_DONE \notin Accesses[i].value
     /\ \/ IsStart(Accesses[i + 1])
        \/ IsControlRead(Accesses[i - 1]) /\ IsControlRead(Accesses[i + 1])}

\* C30: after the first START, START is written again exactly after a
\* control read that showed neither BUSY nor DONE; data is read and the
\* transaction returns only after a control read that showed DONE; the
\* retries of both loops together stay within the budget of the one
\* Timeout, and TimeoutError is raised only when that budget is used up.
C30_I2cStartAndPoll ==
  (i2c.pc \notin {"idle", "lock"} /\ Starts # {}) =>
    LET a == Accesses
    IN /\ \A i \in (FirstStart + 1)..Len(a) :
            /\ IsStart(a[i]) => IsControlRead(a[i - 1]) /\ a[i - 1].value = {}
            /\ (IsControlRead(a[i]) /\ a[i].value = {} /\ i < Len(a)
                  /\ IsStart(a[i - 1])) => IsStart(a[i + 1])
            /\ IsDataRead(a[i]) =>
                 \E j \in (FirstStart + 1)..(i - 1) :
                   IsControlRead(a[j]) /\ I2C_DONE \in a[j].value
            /\ a[i].kind = "write" => IsStart(a[i])
       /\ i2c.pc = "done" =>
            \E j \in (FirstStart + 1)..Len(a) :
              IsControlRead(a[j]) /\ I2C_DONE \in a[j].value
       /\ Cardinality(RetriesGranted) + i2c.timeout.retries <= MaxRetries
       /\ Cardinality(RetriesGranted) + i2c.timeout.retries + 1 >= MaxRetries
       /\ (i2c.pc = "failed" /\ i2c.error = "TimeoutError"
             /\ i2c.log[Len(i2c.log)].kind # "throw") =>
            /\ i2c.timeout.retries = 0
            /\ IsControlRead(a[Len(a)])
            /\ I2C_DONE \notin a[Len(a)].value

\* C30 witness: START was written twice, the control register then showed
\* BUSY, then DONE, and the data was read.
C30_Witness ==
  /\ i2c.pc = "done"
  /\ i2c.log[Len(i2c.log)].kind # "throw"
  /\ i2c.read_byte_count = 5
  /\ Cardinality(Starts) = 2
  /\ \E j \in 1..Len(Accesses) :
       IsControlRead(Accesses[j]) /\ Accesses[j].value = {I2C_BUSY}
          /\ j > FirstStart

\* the register accesses of the spi_transaction in progress
SpiAccesses == SelectSeq(spi.log, LAMBDA e : e.kind # "throw")

SpiPayloadWords == (Len(write_bytes) + 3) \div 4

SpiRunning == spi.pc \notin {"idle", "lock"} /\ Len(SpiAccesses) >= 1

IsSpiStart(e) == e.kind = "write" /\ e.reg = reg_control_

\* the accesses from the control read to the START write are in the order
\* of the source
SpiSetupInOrder ==
  LET a == SpiAccesses
      n == SpiPayloadWords
  IN /\ a[1].kind = "read" /\ a[1].reg = reg_control_
     /\ Len(a) >= 2 => a[2] = Wr(reg_spi_cfg_, spi_cfg_)
     /\ \A k \in 1..n :
          Len(a) >= 2 + k =>
            /\ a[2 + k].kind = "write"
            /\ a[2 + k].reg = reg_data_buffer_ + 4 * (k - 1)
     /\ Len(a) >= 3 + n =>
          a[3 + n].kind = "write" /\ a[3 + n].reg = reg_num_bytes_
     /\ Len(a) >= 4 + n =>
          a[4 + n].kind = "write" /\ a[4 + n].reg = reg_num_bytes2_
     /\ Len(a) >= 5 + n => a[5 + n] = Wr(reg_control_, SPI_START)

\* past the START write come control reads up to the first that shows BUSY
\* clear, and then reads of the data buffer alone
SpiPollThenRead ==
  LET a == SpiAccesses
      s == 5 + SpiPayloadWords
  IN \A i \in (s + 1)..Len(a) :
       /\ a[i].kind = "read"
       /\ a[i].reg # reg_control_ =>
            /\ a[i - 1].kind = "read"
            /\ a[i - 1].reg = reg_control_ => ~HasBusy(a[i - 1].value)
            /\ \E j \in (s + 1)..(i - 1) :
                 a[j].reg = reg_control_ /\ ~HasBusy(a[j].value)
       /\ a[i].reg = reg_control_ =>
            \A j \in (s + 1)..(i - 1) :
              a[j].reg = reg_control_ /\ HasBusy(a[j].value)

\* C31: spi_transaction reads control, writes the configuration, the
\* payload words at ascending addresses, the two byte-count registers and
\* START, polls control until BUSY is clear and then reads the ingress
\* words; START is written only when the first control read showed BUSY
\* clear, and the ingress words are read only after a control read that
\* showed BUSY clear.
C31_SpiOrder ==
  SpiRunning =>
    /\ SpiSetupInOrder
    /\ SpiPollThenRead
    /\ (\E i \in 1..Len(SpiAccesses) : IsSpiStart(SpiAccesses[i])) =>
         ~HasBusy(SpiAccesses[1].value)

SetDirectionRunning == gpio.pc # "idle" /\ gpio.fn = "set_direction"

GpioLogWrites(log) == {i \in 1..Len(log) : log[i][1] = "write"}

\* C32: a step of set_direction leaves the output registers and the other
\* direction register alone and changes no bit of its own direction
\* register but pin % 32; the call returns after one read and one write of
\* the register of bank pin / 32, the value written being the value read
\* with that bit set for IN and cleared for OUT; with any other direction,
\* or a pin at or above the pin count, it fails without a write.
C32_SetDirectionChangesOneBit ==
  [][SetDirectionRunning =>
       LET bank == Bank(gpio.pin)
           bit == pin_bit(gpio.pin)
           log == gpio'.log
       IN /\ gpio'.output = gpio.output
          /\ \A b \in GpioBanks \ {bank} :
               gpio'.direction[b] = gpio.direction[b]
          /\ gpio'.direction[bank] \ {bit} = gpio.direction[bank] \ {bit}
          /\ (gpio.pc # "done" /\ gpio'.pc = "done") =>
               /\ gpio.pin < gpio_pin_number_
               /\ gpio.arg \in {GPIO_IN, OUT}
               /\ Len(log) = 2
               /\ log[1][1] = "read" /\ log[2][1] = "write"
               /\ log[1][2] = "GPIO_DIRECTION" /\ log[2][2] = "GPIO_DIRECTION"
               /\ log[1][3] = bank /\ log[2][3] = bank
               /\ log[1][4] = gpio.direction[bank]
               /\ log[2][4] = gpio'.direction[bank]
               /\ log[2][4] \ {bit} = log[1][4] \ {bit}
               /\ (bit \in log[2][4]) = (gpio.arg = GPIO_IN)
          /\ (gpio.pin >= gpio_pin_number_ \/ gpio.arg \notin {GPIO_IN, OUT}) =>
               /\ gpio'.pc # "done"
               /\ gpio'.direction = gpio.direction
               /\ gpio.pc \in {"done", "failed"} \/ GpioLogWrites(log) = {}
          /\ gpio.pin >= gpio_pin_number_ =>
               gpio.pc = "failed" /\ gpio.log = <<>>]_vars

\* C32 witness: set_direction(1, IN) returned on a register that had bit 0
\* set: it read {0} and wrote {0, 1}.
C32_Witness ==
  /\ SetDirectionRunning /\ gpio.pc = "done"
  /\ gpio.pin = 1 /\ gpio.arg = GPIO_IN
  /\ gpio.log = << <<"read", "GPIO_DIRECTION", 0, {0}>>,
                   <<"write", "GPIO_DIRECTION", 0, {0, 1}>> >>
  /\ gpio.direction[0] = {0, 1}

\* C33: a finished read_uint32 / write_uint32 call that made n attempts has
\* called the retries hook once, with n - 1.
C33_RetriesReportedOnce ==
  \A t \in Threads :
    rc[t].st = "finished" => rc[t].reported = <<rc[t].count - 1>>

BigEndian(bytes, from, n) ==
  IF n = 2 THEN bytes[from] * 256 + bytes[from + 1]
  ELSE bytes[from] * 16777216 + bytes[from + 1] * 65536
         + bytes[from + 2] * 256 + bytes[from + 3]

\* C34: every request datagram sent is the command code, the flags byte,
\* the sequence number in two bytes and the address in four, most
\* significant byte first with two zero bytes between them, and for a write
\* the value in four more: 10 bytes for a read, 14 for a write. The flags
\* byte has ACK_REQUEST in every request and SEQUENCE_CHECK exactly when the
\* call was made with sequence checking.
C34_RequestLayout ==
  \A m \in requests :
    LET b == m.bytes
    IN /\ Len(b) = IF m.cmd = WR_DWORD THEN 14 ELSE 10
       /\ b[1] = m.cmd
       /\ REQUEST_FLAGS_ACK_REQUEST \in b[2]
       /\ \A t \in Threads :
            rc[t].st # "none" /\ rc[t].att = m.att =>
              /\ (REQUEST_FLAGS_SEQUENCE_CHECK \in b[2]) = rc[t].sequence_check
              /\ BigEndian(b, 3, 2) = rc[t].sequence
              /\ BigEndian(b, 7, 4) = rc[t].address
              /\ rc[t].cmd = WR_DWORD => BigEndian(b, 11, 4) = rc[t].value
       /\ \A k \in 3..Len(b) : b[k] \in 0..255
       /\ b[5] = 0 /\ b[6] = 0

\* C34 witness: three requests were sent, the version read of start() made
\* without sequence checking, a read with it and a write with retry = false.
C34_Witness ==
  /\ \E m \in requests :
       m.bytes = <<RD_DWORD, {REQUEST_FLAGS_ACK_REQUEST}, 0, 1, 0, 0,
                   0, 0, 0, FPGA_VERSION>>
  /\ \E m \in requests :
       /\ m.cmd = RD_DWORD /\ Len(m.bytes) = 10
       /\ m.bytes[2] = {REQUEST_FLAGS_ACK_REQUEST, REQUEST_FLAGS_SEQUENCE_CHECK}
  /\ \E m \in requests : \E t \in Threads :
       /\ rc[t].st # "none" /\ rc[t].att = m.att /\ ~rc[t].retry
       /\ m.bytes = <<WR_DWORD,
                      {REQUEST_FLAGS_ACK_REQUEST, REQUEST_FLAGS_SEQUENCE_CHECK},
                      0, 3, 0, 0, 0, 0, 0, DATA_REG, 0, 0, 0, 1>>

\* bits 8 * b .. 8 * b + 7 of a word
ByteOfWord(word, b) ==
  IF b = 0 THEN word % 256
  ELSE IF b = 1 THEN (word \div 256) % 256
  ELSE IF b = 2 THEN (word \div 65536) % 256
  ELSE (word \div 16777216) % 256

\* the positions in the access log of the reads of the data buffer
I2cDataReads ==
  {i \in 1..Len(Accesses) :
     Accesses[i].kind = "read" /\ Accesses[i].reg # "reg_control_"}

I2cDataWrites ==
  {i \in 1..Len(Accesses) :
     /\ Accesses[i].kind = "write"
     /\ Accesses[i].reg # "reg_control_"
     /\ Accesses[i].reg # "reg_num_bytes_"}

\* C35: i2c_transaction writes its payload as ceil(len / 4) words, word k
\* at offset 4k of the data buffer with bytes 4k .. 4k + 3 in bits 0-7,
\* 8-15, 16-23, 24-31 and zero for bytes past the end; having returned, it
\* has read ceil(read_byte_count / 4) words at offsets 0, 4, 8, ... and its
\* result has read_byte_count bytes, byte j being byte j % 4 of the word
\* read at offset 4 * (j / 4).
C35_I2cPacking ==
  i2c.pc \notin {"idle", "lock"} =>
    LET a == Accesses
        len == Len(i2c.write_bytes)
        n == (len + 3) \div 4
        words == (i2c.read_byte_count + 3) \div 4
    IN /\ Cardinality(I2cDataWrites) <= n
       /\ \A i \in I2cDataWrites :
            LET k == i - 6
            IN /\ k \in 0..(n - 1)
               /\ a[i].reg = <<"reg_data_buffer_", 4 * k>>
               /\ \A b \in 0..3 :
                    ByteOfWord(a[i].value, b) =
                      IF 4 * k + b < len THEN i2c.write_bytes[4 * k + b + 1]
                      ELSE 0
       /\ Cardinality(I2cDataReads) <= words
       /\ \A i \in I2cDataReads :
            \E k \in 0..(words - 1) :
              /\ a[i].reg = <<"reg_data_buffer_", 4 * k>>
              /\ Cardinality({j \in I2cDataReads : j < i}) = k
       /\ (\E i \in 1..Len(a) : IsStart(a[i])) =>
            Cardinality(I2cDataWrites) = n
       /\ i2c.pc = "done" =>
            /\ Cardinality(I2cDataReads) = words
            /\ Len(i2c.r) = i2c.read_byte_count
            /\ \A j \in 0..(i2c.read_byte_count - 1) :
                 \E i \in I2cDataReads :
                   /\ a[i].reg = <<"reg_data_buffer_", 4 * (j \div 4)>>
                   /\ i2c.r[j + 1] = ByteOfWord(a[i].value, j % 4)

\* C35 witness: a transaction writing five bytes and reading five returned
\* <<1, 2, 3, 4, 1>> from two reads of the word 0x04030201.
C35_Witness ==
  /\ i2c.pc = "done"
  /\ i2c.write_bytes = <<1, 2, 3, 4, 5>> /\ i2c.read_byte_count = 5
  /\ Cardinality(I2cDataReads) = 2 /\ Cardinality(I2cDataWrites) = 2
  /\ i2c.r = <<1, 2, 3, 4, 1>>

\* the positions in the access log of the reads of the SPI data buffer
SpiDataReads ==
  {i \in 1..Len(SpiAccesses) :
     SpiAccesses[i].kind = "read" /\ SpiAccesses[i].reg >= reg_data_buffer_}

\* C36: spi_transaction reads only whole words of the data buffer from the
\* one that holds offset w = len(command) + len(data) on, stores their
\* bytes inside its local buffer, and returns read_byte_count bytes, byte k
\* being byte (w + k) % 4 of the word read at offset 4 * ((w + k) / 4).
C36_SpiReturnsReadRegion ==
  SpiRunning =>
    LET a == SpiAccesses
        w == Len(write_bytes)
    IN /\ \A i \in SpiDataReads :
            LET off == a[i].reg - reg_data_buffer_
            IN off % 4 = 0 /\ off + 4 > w
       /\ spi.written \subseteq 0..(Len(spi.r) - 1)
       /\ spi.pc = "slice" => SliceInRange
       /\ spi.pc = "done" =>
            /\ spi.read_byte_count.hi = 0
            /\ Len(spi.result) = spi.read_byte_count.lo
            /\ \A k \in 0..(spi.read_byte_count.lo - 1) :
                 \E i \in SpiDataReads :
                   /\ a[i].reg = reg_data_buffer_ + 4 * ((w + k) \div 4)
                   /\ spi.result[k + 1] = ByteOfWord(a[i].value, (w + k) % 4)

Wants(w) ==
  IF Busy(w) /\ Head(worker[w].todo).do = "lock"
    THEN {Head(worker[w].todo).lock} ELSE {}

\* the thread waits for a lock it cannot have now
Blocked(w) == \E n \in Wants(w) : ~Grantable(w, n)

\* the threads that hold the lock w waits for: of its own process for
\* execute_mutex_, of another process for a named lock
Holders(w) ==
  {v \in Workers \ {w} :
     /\ Wants(w) \cap Held(v) # {}
     /\ (ProcessOf(v) = ProcessOf(w)) = (Wants(w) = {ExecuteMutex})}

\* C37: a thread asks for a bus or device lock only while it holds no lock
\* at all, holds at most one of them, never asks for execute_mutex_ while
\* holding it and asks for nothing while holding it; whenever threads are
\* inside operations, one of them is not blocked, and every blocked thread
\* waits for a lock whose holder can run, or waits itself for a lock whose
\* holder can run.
C37_LockOrderNoDeadlock ==
  /\ \A w \in Workers :
       /\ Wants(w) \cap LockNames # {} => Held(w) = {}
       /\ Cardinality(Held(w) \cap LockNames) <= 1
       /\ ExecuteMutex \in Held(w) => Wants(w) = {}
  /\ (\E w \in Workers : Busy(w)) =>
       \E w \in Workers : Busy(w) /\ ~Blocked(w)
  /\ \A w \in Workers :
       Blocked(w) =>
         \E v \in Holders(w) :
           ~Blocked(v) \/ \E u \in Holders(v) : ~Blocked(u)

\* C37 witness: a thread of p1 is inside an exchange of its i2c_transaction,
\* the other thread of p1 waits for execute_mutex_ inside or_uint32 holding
\* the device lock, and the thread of p2 waits for the I2C lock.
C37_Witness ==
  /\ worker["p1.t1"].op = "i2c_transaction"
  /\ Held("p1.t1") = {I2C_LOCK, ExecuteMutex}
  /\ worker["p1.t2"].op = "or_uint32"
  /\ Held("p1.t2") = {DEVICE_LOCK} /\ Blocked("p1.t2")
  /\ worker["p2.t1"].op = "i2c_transaction" /\ Blocked("p2.t1")

\* C38: once every GPIO call of the two threads has returned, the direction
\* bit of each pin is the direction last set for it, and the output bit of
\* each pin that is an output is the value last set for it.
C38_NoLostUpdate ==
  (\A t \in Threads : gpio.call[t] = GpioIdle) =>
    \A p \in RacePins :
      /\ gpio.last_direction[p] # NotSet =>
           read_bit(gpio.direction[Bank(p)], pin_bit(p))
             = (IF gpio.last_direction[p] = GPIO_IN THEN 1 ELSE 0)
      /\ (gpio.last_value[p] # NotSet
            /\ IsOut(read_bit(gpio.direction[Bank(p)], pin_bit(p)))
            /\ gpio.last_direction[p] # GPIO_IN) =>
           read_bit(gpio.output[Bank(p)], pin_bit(p))
             = (IF gpio.last_value[p] = HIGH THEN 1 ELSE 0)

\* C39: ptp_synchronize has returned true only with its last read answered
\* by a non-zero value, false only with the caller's Timeout expired and
\* its last read unanswered or answered by zero; it has made a read before
\* it ends in any way, and a read answered with an error code ends it with
\* that error.
C39_PtpSynchronize ==
  \A t \in Threads :
    /\ op[t] = "true" =>
         /\ rc[t].outcome = "ok" /\ rc[t].got # NoReply
         /\ rc[t].got.value # 0 /\ rc[t].got.code = RESPONSE_SUCCESS
    /\ op[t] = "false" =>
         /\ timeout[t].expired
         /\ \/ rc[t].outcome = "false" /\ rc[t].got = NoReply
            \/ rc[t].outcome = "ok" /\ rc[t].got.value = 0
    /\ op[t] \in {"true", "false", "error"} =>
         rc[t].count >= 1 /\ rc[t].att >= 1
    /\ (op[t] \in {"true", "false", "error"} /\ rc[t].got # NoReply
          /\ rc[t].got.code # RESPONSE_SUCCESS) => op[t] = "error"

\* C39 witness: called with a Timeout that had expired already,
\* ptp_synchronize sent one read, got no reply and returned false.
C39_Witness ==
  /\ op[Caller] = "false" /\ rc[Caller].count = 1
  /\ rc[Caller].got = NoReply /\ attempts = 1

\* the calls start() and stop() have made so far, in order
Calls == receiver.trace

\* the i-th call was step, and it returned
IsCall(i, step) ==
  i \in 1..Len(Calls) /\ Calls[i].call = step /\ ~Calls[i].threw

\* nothing follows the i-th call but the framework's call of stop()
EndsStart(i) == i < Len(Calls) => Calls[i + 1].call = "stop"

\* C40: start() creates the data socket and starts the receiver before it
\* configures the data channel, and calls device_start last; stop() calls
\* device_stop before it stops the receiver; the device is started only
\* while a receiver is running and the channel is configured for the data
\* socket; after a failed socket creation start() calls nothing more.
C40_ReceiverStartStopOrder ==
  /\ \A i \in 1..Len(Calls) :
       /\ Calls[i].call = "configure" =>
            IsCall(i - 1, "start_receiver") /\ IsCall(i - 2, "socket")
       /\ Calls[i].call = "device_start" =>
            IsCall(i - 1, "configure") /\ EndsStart(i)
       /\ Calls[i].call = "stop_" => IsCall(i - 1, "device_stop")
       /\ (Calls[i].call = "socket" /\ Calls[i].threw) => EndsStart(i)
  /\ receiver.device =>
       /\ receiver.receiving
       /\ receiver.data_socket_ # 0
       /\ receiver.configured = receiver.data_socket_

\* C40 witness: the operator was started, stopped and started again, and
\* the second start() failed to create its socket.
C40_Witness ==
  /\ receiver.starts = 2
  /\ receiver.pc = "failed"
  /\ Calls[Len(Calls)] = [call |-> "socket", threw |-> TRUE]
  /\ \E i \in 1..Len(Calls) : IsCall(i, "device_start")
  /\ \E i \in 1..Len(Calls) : IsCall(i, "stop_")

====
